---- MODULE Spec2Model ----
(***************************************************************************)
(* Recommendation::FeaturesEngine (FeaturesEngine.cpp): the engine that    *)
(* trains a self-organizing map over the catalog's track features or       *)
(* adopts a cached one, builds the position <-> entity index, and answers  *)
(* similarity queries.  load() is modelled step by step, one step per      *)
(* polling point of the cancel flag, so that requestCancelLoad(), the      *)
(* queries and the catalog's changes interleave with it.                   *)
(***************************************************************************)
EXTENDS Integers, Sequences, FiniteSets, TLC

\* ------------------------------------------------------------------ bounds
MaxLoads == 2          \* load() calls in one behaviour
MaxDeletes == 1        \* tracks removed from the catalog in one behaviour
MaxQueryCount == 2     \* largest maxCount a query is given
IterationCount == 2    \* TrainSettings::iterationCount of the model
NormScale == 2         \* normalized feature values lie in 0..NormScale
MaxSampleCount == 36   \* largest sample set whose grid is sized, but for one of 400
MaxValueCount == 3     \* most values the feature source holds for one feature
MaxRawValue == 3        \* largest raw feature value of a sample in the normalization steps
MaxEntries == 3        \* most entries of a track list, and largest offset and size asked

\* --------------------------------------------------------------- catalog
\* The catalog of the model: three tracks, two releases, three artists.
Tracks == {1, 2, 3}
Releases == {1, 2}
Artists == {1, 2, 3}
\* TrackArtistLinkType; no track of the catalog has a Producer link.
LinkTypes == {"Artist", "Composer", "Producer"}
TrackLists == {1, 2}
NoRelease == 0

\* Track::getRelease: tracks 1 and 2 are on release 1, track 3 on release 2,
\* any further track has no release.
TrackRelease(t) == IF t <= 2 THEN 1 ELSE IF t = 3 THEN 2 ELSE NoRelease

\* Track::getArtistLinks, in the order the links are enumerated.
TrackArtistLinks(t) ==
    CASE t = 1 -> << [artist |-> 1, type |-> "Artist"] >>
      [] t = 2 -> << [artist |-> 1, type |-> "Composer"],
                     [artist |-> 2, type |-> "Artist"],
                     [artist |-> 3, type |-> "Artist"] >>
      [] t = 3 -> << [artist |-> 2, type |-> "Artist"] >>
      [] OTHER -> << >>

\* TrackList::getTrackIds of the stored track lists; list 2 does not exist.
TrackListIds(l) == IF l = 1 THEN << 1, 3 >> ELSE << >>

\* The raw feature value of a track (one dimension stands for the vector);
\* tracks 2 and 3 have the same features.
FeatureValue(t) == IF t = 3 THEN 2 ELSE t

\* What the feature source holds per track: "ok" a value map of the declared
\* dimensions, "mismatch" a map with a wrong value count, "empty" a features
\* row with no usable value, "none" no features row at all.
FeatureConfigs ==
    { [t \in Tracks |-> "ok"],
      [t \in Tracks |-> IF t = 1 THEN "empty" ELSE IF t = 2 THEN "ok" ELSE "mismatch"],
      [t \in Tracks |-> IF t = 1 THEN "mismatch" ELSE IF t = 2 THEN "empty" ELSE "none"] }

\* ------------------------------------------------------------ SOM types
Grid(w, h) == (0 .. w - 1) \X (0 .. h - 1)

\* Row-major rank of a position in a grid of the given width.
Rank(p, w) == p[2] * w + p[1]

Abs(x) == IF x < 0 THEN -x ELSE x

Min2(a, b) == IF a < b THEN a ELSE b

Max2(a, b) == IF a > b THEN a ELSE b

SetMin(S) == CHOOSE x \in S : \A y \in S : x <= y

SetMax(S) == CHOOSE x \in S : \A y \in S : x >= y

NoNetwork == [width |-> 0, height |-> 0, refVectors |-> << >>]

\* SOM::Network {width, height, nbDimensions}: the reference vectors start
\* with random values; two outcomes of the random fill are kept.
InitRefVectors(w, h) ==
    { [p \in Grid(w, h) |-> 0], [p \in Grid(w, h) |-> Min2(p[1] + p[2], NormScale)] }

NewNetworks(size) ==
    { [width |-> size, height |-> size, refVectors |-> r] : r \in InitRefVectors(size, size) }

\* Weighted distance of a reference vector to a sample (one dimension).
Distance(net, p, sample) == Abs(net.refVectors[p] - sample)

getLastClosestRefVectorPosition(net, sample) ==
    LET G == Grid(net.width, net.height)
        best == SetMin({ Distance(net, p, sample) : p \in G })
        cands == { p \in G : Distance(net, p, sample) = best }
    IN  CHOOSE p \in cands : \A q \in cands : Rank(p, net.width) >= Rank(q, net.width)

\* Network::getClosestRefVectorPosition: the neuron of minimum distance,
\* the first one in row-major order on a tie.
getClosestRefVectorPosition(net, sample) ==
    LET G == Grid(net.width, net.height)
        best == SetMin({ Distance(net, p, sample) : p \in G })
        cands == { p \in G : Distance(net, p, sample) = best }
    IN  CHOOSE p \in cands : \A q \in cands : Rank(p, net.width) <= Rank(q, net.width)

Adjacent(p, q) == Abs(p[1] - q[1]) + Abs(p[2] - q[2]) = 1

Toward(v, target) == IF v < target THEN v + 1 ELSE IF v > target THEN v - 1 ELSE v

\* One training iteration k on sample s: the best matching unit takes the
\* sample's value, its grid neighbours move one unit toward it while the
\* neighbourhood radius (1 at k = 0, then 0) reaches them.
TrainIteration(net, s, k) ==
    LET bmu == getClosestRefVectorPosition(net, s)
    IN  [net EXCEPT !.refVectors =
            [p \in DOMAIN net.refVectors |->
                IF p = bmu THEN s
                ELSE IF k = 0 /\ Adjacent(p, bmu) THEN Toward(net.refVectors[p], s)
                ELSE net.refVectors[p]]]

\* Network::computeRefVectorsDistanceMedian: the median of the distances
\* between grid-adjacent reference vectors.
computeRefVectorsDistanceMedian(net) ==
    LET G == Grid(net.width, net.height)
        pairs == { pq \in G \X G : Adjacent(pq[1], pq[2]) /\
                                   Rank(pq[1], net.width) < Rank(pq[2], net.width) }
        d(pq) == Abs(net.refVectors[pq[1]] - net.refVectors[pq[2]])
        n == Cardinality(pairs)
    IN  IF n = 0 THEN 0
        ELSE CHOOSE v \in { d(pq) : pq \in pairs } :
                /\ Cardinality({ pq \in pairs : d(pq) < v }) <= n \div 2
                /\ Cardinality({ pq \in pairs : d(pq) <= v }) > n \div 2

\* Matrix<T> {width, height}: one empty cell per grid position.
NewMatrix(w, h) == [width |-> w, height |-> h, cells |-> [p \in Grid(w, h) |-> << >>]]

NoMatrix == [width |-> 0, height |-> 0, cells |-> << >>]

\* An entity -> positions map with no entry.
EmptyPositions(S) == [e \in S |-> << >>]

push_back(seq, e) == Append(seq, e)

\* Utils::push_back_if_not_present.
push_back_if_not_present(seq, e) ==
    IF \E i \in DOMAIN seq : seq[i] = e THEN seq ELSE Append(seq, e)

Range(seq) == { seq[i] : i \in DOMAIN seq }

\* DataNormalizer: min-max factors over the whole sample set, then the
\* rescaling of one sample to 0..NormScale.
computeNormalizationFactors(samples) ==
    [min |-> SetMin(Range(samples)), max |-> SetMax(Range(samples))]

normalizeData(f, v) ==
    IF f.max = f.min THEN 0 ELSE ((v - f.min) * NormScale) \div (f.max - f.min)

\* Grid sizing of loadFromTraining: floor(sqrt(n / sampleCountPerNeuron)),
\* at least 2.
SampleCountPerNeuron == 4

ISqrt(n) == SetMax({ r \in 0 .. n : r * r <= n })

GridSizeUnclamped(nbSamples, spn) == ISqrt((nbSamples * spn[2]) \div spn[1])

\* Lines 200-205; the samples per neuron are the fraction spn[1] / spn[2].
GridSize(nbSamples, spn) == Max2(2, ISqrt((nbSamples * spn[2]) \div spn[1]))

\* TrainSettings' sampleCountPerNeuron when the caller sets none.
DefaultSampleCountPerNeuron == << SampleCountPerNeuron, 1 >>


\* ----------------------------------------------------------------- state
VARIABLES
    \* the catalog (Database): existing entities and the feature source
    tracksDb, releasesDb, artistsDb, features,
    \* whether the caller of load() hands it a progress callback
    progressCallback,
    \* TrainSettings::sampleCountPerNeuron of the trainings, as a fraction
    \* << numerator, denominator >>
    sampleCountPerNeuron,
    \* a function of the code applied on its own: its name, its arguments and,
    \* once it has returned, its result
    call,
    \* a second thread inside load() on the same engine, while it is not the
    \* one running: its position, its locals and its history
    other,
    \* the model cache file (FeaturesEngineCache)
    cache,
    \* FeaturesEngine's fields
    network, networkRefVectorsDistanceMedian,
    trackPositions, trackMatrix,
    releasePositions, releaseMatrix,
    artistPositions, artistMatrix,
    loadCancelled,
    \* the thread inside load(): its position and its locals
    pc, path, trackIds, samples, samplesTrackIds, lnetwork, ltrackPositions, i, todo,
    \* the Progress values the caller's callback has been invoked with during
    \* the running load()
    progress,
    \* the similarity query that has just returned: the operation, its query
    \* entities, its link types (artist queries), its maxCount and its result
    lastQuery,
    \* history: load() calls so far, tracks deleted so far, the engine's model
    \* when the running (or last) load() was entered, the model last handed to
    \* load(network, trackPositions), and what the running (or last) load() did
    loads, deletes, entry, loaded, hist

catalogVars == << tracksDb, releasesDb, artistsDb, features >>

callerVars == << progressCallback, sampleCountPerNeuron >>

\* All that is not the engine's, its cache's or a query's.
outsideVars == << catalogVars, callerVars, call, other >>

indexVars == << trackPositions, trackMatrix, releasePositions, releaseMatrix,
                artistPositions, artistMatrix >>

engineVars == << network, networkRefVectorsDistanceMedian, trackPositions, trackMatrix,
                 releasePositions, releaseMatrix, artistPositions, artistMatrix >>

localVars == << trackIds, samples, samplesTrackIds, lnetwork, ltrackPositions, i, todo, progress >>

vars == << tracksDb, releasesDb, artistsDb, features, progressCallback,
           sampleCountPerNeuron, call, other, cache,
           network, networkRefVectorsDistanceMedian, trackPositions, trackMatrix,
           releasePositions, releaseMatrix, artistPositions, artistMatrix, loadCancelled,
           pc, path, trackIds, samples, samplesTrackIds, lnetwork, ltrackPositions, i, todo, progress,
           lastQuery, loads, deletes, entry, loaded, hist >>

NoCache == [network |-> NoNetwork, trackPositions |-> << >>]

NoCall == [fn |-> "none"]

\* A cache file that is there and cannot be read.
UnreadableCache == [network |-> NoNetwork, trackPositions |-> EmptyPositions(Tracks)]

CacheReadAsStored(file) == file

\* FeaturesEngineCache::read: the stored value, or none when the file is
\* absent or unreadable.
CacheRead(file) == IF file = UnreadableCache THEN NoCache ELSE file

\* The six index structures as one value.
Index ==
    [trackPositions |-> trackPositions, trackMatrix |-> trackMatrix,
     releasePositions |-> releasePositions, releaseMatrix |-> releaseMatrix,
     artistPositions |-> artistPositions, artistMatrix |-> artistMatrix]

\* The engine's whole in-memory model: network, median distance and index.
EngineModel ==
    [network |-> network, median |-> networkRefVectorsDistanceMedian, index |-> Index]

\* The index of a freshly constructed engine.
EmptyIndex ==
    [trackPositions |-> EmptyPositions(Tracks), trackMatrix |-> NoMatrix,
     releasePositions |-> EmptyPositions(Releases), releaseMatrix |-> NoMatrix,
     artistPositions |-> EmptyPositions(Artists), artistMatrix |-> << >>]

\* What a load() did: the loop whose poll of the flag ended it, whether the
\* sample set was empty, whether the flag was set before the first training
\* iteration, whether the network was installed, whether the cache was
\* written, the flag's value when load() returned, and the number of
\* deleted tracks when it was entered.
NoHist ==
    [abortedAt |-> "none", empty |-> FALSE, cancelBeforeTrain |-> FALSE,
     published |-> FALSE, wrote |-> FALSE, flagAtReturn |-> FALSE,
     deletesAtEntry |-> 0]

\* A thread that is not inside load().
IdleThread ==
    [pc |-> "idle", path |-> "none", trackIds |-> << >>, samples |-> << >>,
     samplesTrackIds |-> << >>, lnetwork |-> NoNetwork,
     ltrackPositions |-> EmptyPositions(Tracks), i |-> 0, todo |-> {}, progress |-> << >>,
     entry |-> [network |-> NoNetwork, median |-> 0, index |-> EmptyIndex],
     loaded |-> NoCache, hist |-> NoHist]

NoQuery == [op |-> "none", ids |-> << >>, linkTypes |-> {}, maxCount |-> 0, res |-> << >>]

\* A cache file left by an earlier run: a trained 2 x 2 network and the
\* positions of its tracks.
StoredNetwork ==
    [width |-> 2, height |-> 2, refVectors |-> [p \in Grid(2, 2) |-> Min2(p[1] + p[2], NormScale)]]

StoredCaches ==
    { [network |-> StoredNetwork,
       trackPositions |-> [t \in Tracks |-> IF t = 1 THEN << <<1, 1>> >>
                                            ELSE IF t = 2 THEN << <<0, 0>> >> ELSE << >>]] }

\* A freshly constructed engine on the whole catalog.
InitEngine ==
    /\ tracksDb = Tracks
    /\ releasesDb = Releases
    /\ artistsDb = Artists
    /\ network = NoNetwork
    /\ networkRefVectorsDistanceMedian = 0
    /\ trackPositions = EmptyIndex.trackPositions
    /\ trackMatrix = EmptyIndex.trackMatrix
    /\ releasePositions = EmptyIndex.releasePositions
    /\ releaseMatrix = EmptyIndex.releaseMatrix
    /\ artistPositions = EmptyIndex.artistPositions
    /\ artistMatrix = EmptyIndex.artistMatrix
    /\ loadCancelled = FALSE
    /\ other = IdleThread
    /\ pc = "idle"
    /\ path = "none"
    /\ trackIds = << >>
    /\ samples = << >>
    /\ samplesTrackIds = << >>
    /\ progress = << >>
    /\ lnetwork = NoNetwork
    /\ ltrackPositions = EmptyPositions(Tracks)
    /\ i = 0
    /\ todo = {}
    /\ lastQuery = NoQuery
    /\ loads = 0
    /\ deletes = 0
    /\ entry = EngineModel
    /\ loaded = NoCache
    /\ hist = NoHist

Init ==
    /\ features \in FeatureConfigs
    /\ progressCallback = TRUE
    /\ sampleCountPerNeuron = DefaultSampleCountPerNeuron
    /\ call = NoCall
    /\ cache \in {NoCache} \cup StoredCaches
    /\ InitEngine

\* ------------------------------------------------- index construction
\* Matrix::operator[] followed by push_back_if_not_present.
AddToCell(m, p, e) == [m EXCEPT !.cells[p] = push_back_if_not_present(@, e)]

\* Lines 433-446 for one artist link of the track: the artist's positions,
\* and the link type's matrix, created with the new grid's size when the
\* map has none for that type.
AddArtistLink(ix, link, p, w, h) ==
    LET am == ix.artistMatrix
        m  == IF link.type \in DOMAIN am THEN am[link.type] ELSE NewMatrix(w, h)
    IN  [ix EXCEPT
            !.artistPositions[link.artist] = push_back_if_not_present(@, p),
            !.artistMatrix = [lt \in DOMAIN am \cup {link.type} |->
                                IF lt = link.type THEN AddToCell(m, p, link.artist)
                                ELSE am[lt]]]

RECURSIVE AddArtistLinks(_, _, _, _, _)
AddArtistLinks(ix, links, p, w, h) ==
    IF links = << >> THEN ix
    ELSE AddArtistLinks(AddArtistLink(ix, Head(links), p, w, h), Tail(links), p, w, h)

\* Lines 424-446: one position of one track enters the six structures.
AddPosition(ix, t, p, w, h) ==
    LET r   == TrackRelease(t)
        ix1 == [ix EXCEPT !.trackPositions[t] = push_back_if_not_present(@, p),
                          !.trackMatrix = AddToCell(@, p, t)]
        ix2 == IF r # NoRelease
               THEN [ix1 EXCEPT !.releasePositions[r] = push_back_if_not_present(@, p),
                                !.releaseMatrix = AddToCell(@, p, r)]
               ELSE ix1
    IN  AddArtistLinks(ix2, TrackArtistLinks(t), p, w, h)

RECURSIVE AddPositions(_, _, _, _, _)
AddPositions(ix, t, positions, w, h) ==
    IF positions = << >> THEN ix
    ELSE AddPositions(AddPosition(ix, t, Head(positions), w, h), t, Tail(positions), w, h)

\* Lines 416-447: the loop body for one entry of trackPositions; a track
\* that is no longer in the catalog is skipped.
IndexTrack(ix, t, positions, w, h, db) ==
    IF t \in db THEN AddPositions(ix, t, positions, w, h) ELSE ix

\* Lines 404-405: the release and track matrices are replaced by empty ones
\* of the new grid's size; nothing else is reset.
ResetMatrices(ix, w, h) ==
    [ix EXCEPT !.releaseMatrix = NewMatrix(w, h), !.trackMatrix = NewMatrix(w, h)]

SetIndex(ix) ==
    /\ trackPositions' = ix.trackPositions
    /\ trackMatrix' = ix.trackMatrix
    /\ releasePositions' = ix.releasePositions
    /\ releaseMatrix' = ix.releaseMatrix
    /\ artistPositions' = ix.artistPositions
    /\ artistMatrix' = ix.artistMatrix


\* ------------------------------------------------------------------ load
\* Track::getAllIdsWithFeatures: the catalog's tracks that have a features
\* row, in id order.
RECURSIVE InIdOrder(_)
InIdOrder(S) ==
    IF S = {} THEN << >> ELSE << SetMin(S) >> \o InIdOrder(S \ {SetMin(S)})

getAllIdsWithFeatures == InIdOrder({ t \in tracksDb : features[t] # "none" })

HasUsableSampleAlways(t) == TRUE

\* Lines 168-180: the fetch of one track's features and their conversion to
\* an input vector succeed only for a track still in the catalog whose value
\* map is non-empty and of the declared dimensions.
HasUsableSample(t) == t \in tracksDb /\ features[t] = "ok"

\* Line 382: the cache is written after loadFromTraining unless the cancel
\* flag is set.
ShouldWriteCache(cancelled) == ~cancelled

PollCancelledNever(cancelled) == FALSE

\* Lines 165, 230 and 413, and the trainer's predicate of line 222: a loop
\* stops when it polls the flag set.
PollCancelled(cancelled) == cancelled

\* Lines 213-217: somProgressCallback hands the caller's callback the
\* iteration's number and the iteration count as a Progress.
somProgressCallback(log, k) ==
    Append(log, [currentIteration |-> k, totalIterations |-> IterationCount])

InvokeProgressUnconditionally(log, k, hasCallback) == somProgressCallback(log, k)

\* Network::train's call of its progress callback in iteration k; line 221
\* gives it somProgressCallback when the caller passed a callback, and an
\* empty one when not.
InvokeProgress(log, k, hasCallback) ==
    IF hasCallback THEN somProgressCallback(log, k) ELSE log

ClassificationPollsNothing(cancelled) == FALSE

\* Line 230: the poll at the start of every pass of the classification loop.
ClassificationPollsFlag(cancelled) == PollCancelled(cancelled)

TrainPollsPredicateOnce(cancelled, k) == k = 0 /\ cancelled

\* Network::train with the predicate of line 222: the predicate is called
\* at the start of iteration k.
TrainPollsPredicate(cancelled, k) == PollCancelled(cancelled)

ResetLocals ==
    /\ trackIds' = << >>
    /\ samples' = << >>
    /\ samplesTrackIds' = << >>
    /\ progress' = << >>
    /\ lnetwork' = NoNetwork
    /\ ltrackPositions' = EmptyPositions(Tracks)
    /\ i' = 0
    /\ todo' = {}

\* load() returns to its caller.
ReturnFromLoad ==
    /\ pc' = "idle"
    /\ ResetLocals

\* loadFromTraining returns into load(bool, ...), line 382.
ReturnFromTraining ==
    /\ pc' = "write"
    /\ ResetLocals

\* Lines 398-405, the entry of load(network, trackPositions): the median is
\* overwritten and the two matrices are reset, then the loop over the track
\* positions starts.
BeginIndex(net, positions) ==
    /\ networkRefVectorsDistanceMedian' = computeRefVectorsDistanceMedian(net)
    /\ SetIndex(ResetMatrices(Index, net.width, net.height))
    /\ lnetwork' = net
    /\ ltrackPositions' = [t \in Tracks |-> IF t \in DOMAIN positions THEN positions[t] ELSE << >>]
    /\ todo' = { t \in DOMAIN positions : positions[t] # << >> }
    /\ loaded' = [network |-> net,
                  trackPositions |-> [t \in Tracks |-> IF t \in DOMAIN positions
                                                       THEN positions[t] ELSE << >>]]
    /\ pc' = "index"

\* load(forceReload, progressCallback), lines 368-381: invalidate the cache
\* and train, or adopt the cache when it reads, or train when it does not.
Load(forceReload) ==
    /\ lastQuery = NoQuery
    /\ pc = "idle"
    /\ loads < MaxLoads
    /\ loads' = loads + 1
    /\ entry' = EngineModel
    /\ hist' = [NoHist EXCEPT !.cancelBeforeTrain = loadCancelled,
                               !.deletesAtEntry = deletes]
    /\ IF ~forceReload /\ CacheRead(cache) # NoCache
       THEN /\ path' = "cache"
            /\ BeginIndex(CacheRead(cache).network, CacheRead(cache).trackPositions)
            /\ UNCHANGED << cache, network, trackIds, samples, samplesTrackIds, progress, i >>
       ELSE /\ path' = "train"
            /\ cache' = IF forceReload THEN NoCache ELSE cache
            /\ trackIds' = getAllIdsWithFeatures
            /\ pc' = "fetch"
            /\ UNCHANGED << engineVars, samples, samplesTrackIds, progress, lnetwork,
                            ltrackPositions, i, todo, loaded >>
    /\ UNCHANGED << outsideVars, loadCancelled, lastQuery, deletes >>

\* loadFromCache(cache), lines 243-249, called with a cache value of the
\* caller's.
LoadFromCache(c) ==
    /\ lastQuery = NoQuery
    /\ pc = "idle"
    /\ loads < MaxLoads
    /\ loads' = loads + 1
    /\ entry' = EngineModel
    /\ hist' = [NoHist EXCEPT !.cancelBeforeTrain = loadCancelled,
                               !.deletesAtEntry = deletes]
    /\ path' = "cache"
    /\ BeginIndex(c.network, c.trackPositions)
    /\ UNCHANGED << outsideVars, cache, network, loadCancelled, trackIds, samples,
                    samplesTrackIds, progress, i, lastQuery, deletes >>

\* One pass of the sample loop, lines 163-184, or, once the track ids are
\* used up, lines 187-211: nothing to classify, or normalization and the
\* construction of the network.
FetchStep ==
    /\ lastQuery = NoQuery
    /\ pc = "fetch"
    /\ IF trackIds # << >>
       THEN IF PollCancelled(loadCancelled)
            THEN /\ ReturnFromTraining
                 /\ hist' = [hist EXCEPT !.abortedAt = "fetch", !.cancelBeforeTrain = TRUE]
            ELSE LET t == Head(trackIds)
                 IN  /\ trackIds' = Tail(trackIds)
                     /\ samples' = IF HasUsableSample(t)
                                   THEN Append(samples, FeatureValue(t)) ELSE samples
                     /\ samplesTrackIds' = IF HasUsableSample(t)
                                           THEN Append(samplesTrackIds, t) ELSE samplesTrackIds
                     /\ hist' = [hist EXCEPT !.cancelBeforeTrain = loadCancelled]
                     /\ UNCHANGED << pc, lnetwork, ltrackPositions, i, todo, progress >>
       ELSE IF samples = << >>
            THEN /\ ReturnFromTraining
                 /\ hist' = [hist EXCEPT !.empty = TRUE]
            ELSE /\ samples' = [k \in DOMAIN samples |->
                                   normalizeData(computeNormalizationFactors(samples), samples[k])]
                 /\ lnetwork' \in NewNetworks(GridSize(Len(samples), sampleCountPerNeuron))
                 /\ i' = 0
                 /\ pc' = "train"
                 /\ hist' = [hist EXCEPT !.cancelBeforeTrain = loadCancelled]
                 /\ UNCHANGED << trackIds, samplesTrackIds, progress, ltrackPositions, todo >>
    /\ UNCHANGED << outsideVars, cache, engineVars, loadCancelled, path, lastQuery,
                    loads, deletes, entry, loaded >>

\* Network::train, one iteration: the predicate is polled at the start of
\* the iteration; a set flag ends the training, else the sample of the
\* iteration is applied.  The classification loop follows either way.
TrainStep ==
    /\ lastQuery = NoQuery
    /\ pc = "train"
    /\ IF TrainPollsPredicate(loadCancelled, i)
       THEN /\ pc' = "classify"
            /\ i' = 0
            /\ hist' = [hist EXCEPT !.abortedAt = "train",
                                    !.cancelBeforeTrain = IF i = 0 THEN loadCancelled ELSE @]
            /\ UNCHANGED << lnetwork, progress >>
       ELSE /\ lnetwork' = TrainIteration(lnetwork, samples[(i % Len(samples)) + 1], i)
            /\ progress' = InvokeProgress(progress, i, progressCallback)
            /\ hist' = [hist EXCEPT !.cancelBeforeTrain = IF i = 0 THEN loadCancelled ELSE @]
            /\ IF i + 1 < IterationCount
               THEN i' = i + 1 /\ UNCHANGED pc
               ELSE i' = 0 /\ pc' = "classify"
    /\ UNCHANGED << outsideVars, cache, engineVars, loadCancelled, path, trackIds, samples,
                    samplesTrackIds, ltrackPositions, todo, lastQuery, loads, deletes, entry,
                    loaded >>

\* One pass of the classification loop, lines 228-236, or, after its last
\* pass, the call of load(network, trackPositions) of line 240.
ClassifyStep ==
    /\ lastQuery = NoQuery
    /\ pc = "classify"
    /\ IF i < Len(samples)
       THEN IF ClassificationPollsFlag(loadCancelled)
            THEN /\ ReturnFromTraining
                 /\ hist' = [hist EXCEPT !.abortedAt =
                                IF hist.abortedAt = "train" THEN "train" ELSE "classify"]
                 /\ UNCHANGED << engineVars, loaded >>
            ELSE /\ ltrackPositions' =
                        [ltrackPositions EXCEPT ![samplesTrackIds[i + 1]] =
                            Append(@, getClosestRefVectorPosition(lnetwork, samples[i + 1]))]
                 /\ i' = i + 1
                 /\ UNCHANGED << engineVars, pc, trackIds, samples, samplesTrackIds, progress,
                                 lnetwork, todo, hist, loaded >>
       ELSE /\ BeginIndex(lnetwork, ltrackPositions)
            /\ UNCHANGED << network, trackIds, samples, samplesTrackIds, progress, i, hist >>
    /\ UNCHANGED << outsideVars, cache, loadCancelled, path, lastQuery, loads, deletes, entry >>

\* One pass of the loop over the track positions, lines 411-448 (the map's
\* entries are taken in id order), or, after its last pass, line 450: the
\* network is installed.
IndexStep ==
    /\ lastQuery = NoQuery
    /\ pc = "index"
    /\ IF todo # {}
       THEN IF PollCancelled(loadCancelled)
            THEN /\ hist' = [hist EXCEPT !.abortedAt = "index", !.flagAtReturn = TRUE]
                 /\ IF path = "cache" THEN ReturnFromLoad ELSE ReturnFromTraining
                 /\ UNCHANGED engineVars
            ELSE LET t == SetMin(todo)
                 IN /\ SetIndex(IndexTrack(Index, t, ltrackPositions[t],
                                           lnetwork.width, lnetwork.height, tracksDb))
                    /\ todo' = todo \ {t}
                    /\ UNCHANGED << network, networkRefVectorsDistanceMedian, pc, trackIds,
                                    samples, samplesTrackIds, progress, lnetwork, ltrackPositions, i, hist >>
       ELSE /\ network' = lnetwork
            /\ hist' = [hist EXCEPT !.published = TRUE, !.flagAtReturn = loadCancelled]
            /\ IF path = "cache" THEN ReturnFromLoad ELSE ReturnFromTraining
            /\ UNCHANGED << networkRefVectorsDistanceMedian, indexVars >>
    /\ UNCHANGED << outsideVars, cache, loadCancelled, path, lastQuery, loads, deletes, entry,
                    loaded >>

\* toCache(), line 362: the engine's network and track positions.
toCache == [network |-> network, trackPositions |-> trackPositions]

\* Lines 382-383: unless the flag is set, toCache().write().  toCache
\* dereferences the network pointer: with no network installed the read is
\* undefined, and the process stops or writes whatever it read.
WriteStep ==
    /\ lastQuery = NoQuery
    /\ pc = "write"
    /\ IF ShouldWriteCache(loadCancelled)
       THEN IF network # NoNetwork
            THEN /\ cache' = toCache
                 /\ pc' = "idle"
                 /\ hist' = [hist EXCEPT !.flagAtReturn = loadCancelled, !.wrote = TRUE]
            ELSE \/ /\ pc' = "crashed"
                    /\ UNCHANGED << cache, hist >>
                 \/ /\ pc' = "idle"
                    /\ \E n \in NewNetworks(2) :
                          cache' = [network |-> n, trackPositions |-> trackPositions]
                    /\ hist' = [hist EXCEPT !.flagAtReturn = loadCancelled, !.wrote = TRUE]
       ELSE /\ pc' = "idle"
            /\ hist' = [hist EXCEPT !.flagAtReturn = loadCancelled]
            /\ UNCHANGED cache
    /\ UNCHANGED << outsideVars, engineVars, loadCancelled, path, localVars, lastQuery,
                    loads, deletes, entry, loaded >>

SetCancelledToggling(flag) == ~flag

\* Line 390: _loadCancelled = true, the only write of the flag.
SetCancelled(flag) == TRUE

RequestCancelLoadDroppingModel ==
    /\ lastQuery = NoQuery
    /\ pc # "crashed"
    /\ loadCancelled' = TRUE
    /\ network' = NoNetwork
    /\ UNCHANGED << outsideVars, cache, networkRefVectorsDistanceMedian, indexVars, pc, path,
                    localVars, lastQuery, loads, deletes, entry, loaded, hist >>

\* requestCancelLoad(), line 390.
RequestCancelLoad ==
    /\ lastQuery = NoQuery
    /\ pc # "crashed"
    /\ loadCancelled' = SetCancelled(loadCancelled)
    /\ UNCHANGED << outsideVars, cache, engineVars, pc, path, localVars, lastQuery,
                    loads, deletes, entry, loaded, hist >>

\* --------------------------------------------------- the catalog changes
\* A scan removes a track from the catalog.
DeleteTrack(t) ==
    /\ lastQuery = NoQuery
    /\ pc # "crashed"
    /\ t \in tracksDb
    /\ deletes < MaxDeletes
    /\ deletes' = deletes + 1
    /\ tracksDb' = tracksDb \ {t}
    /\ UNCHANGED << releasesDb, artistsDb, features, progressCallback, sampleCountPerNeuron, call, other,
                    cache, engineVars, loadCancelled,
                    pc, path, localVars, lastQuery, loads, entry, loaded, hist >>

\* The scan's clean-up removes the releases and artists no track refers to.
RemoveOrphans ==
    /\ lastQuery = NoQuery
    /\ pc # "crashed"
    /\ releasesDb' = { r \in releasesDb : \E t \in tracksDb : TrackRelease(t) = r }
    /\ artistsDb' = { a \in artistsDb : \E t \in tracksDb :
                        \E k \in DOMAIN TrackArtistLinks(t) : TrackArtistLinks(t)[k].artist = a }
    /\ UNCHANGED << tracksDb, features, progressCallback, sampleCountPerNeuron, call, other, cache,
                    engineVars, loadCancelled,
                    pc, path, localVars, lastQuery, loads, deletes, entry, loaded, hist >>

\* ----------------------------------------------------------------- queries
\* Cells of a matrix at a position (no cell outside the matrix's grid).
Cell(m, p) == IF p \in DOMAIN m.cells THEN m.cells[p] ELSE << >>

RECURSIVE ConcatPositions(_, _)
ConcatPositions(ids, positions) ==
    IF ids = << >> THEN << >>
    ELSE (IF Head(ids) \in DOMAIN positions THEN positions[Head(ids)] ELSE << >>)
            \o ConcatPositions(Tail(ids), positions)

RECURSIVE CollectFrom(_, _, _, _)
CollectFrom(res, cell, ids, maxCount) ==
    IF cell = << >> THEN res
    ELSE LET e == Head(cell)
             r == IF e \notin Range(ids) /\ e \notin Range(res) /\ Len(res) < maxCount
                  THEN Append(res, e) ELSE res
         IN  CollectFrom(r, Tail(cell), ids, maxCount)

RECURSIVE CollectAt(_, _, _, _, _)
CollectAt(res, ps, matrix, ids, maxCount) ==
    IF ps = << >> THEN res
    ELSE CollectAt(CollectFrom(res, Cell(matrix, Head(ps)), ids, maxCount),
                   Tail(ps), matrix, ids, maxCount)

getSimilarObjectsWithSelf(ids, matrix, positions, maxCount) ==
    CollectAt(<< >>, ConcatPositions(ids, positions), matrix, << >>, maxCount)

\* getSimilarObjects(ids, matrix, positions, maxCount): the entities found in
\* the matrix cells of the query entities' positions, the query entities
\* themselves left out, at most maxCount of them.
getSimilarObjects(ids, matrix, positions, maxCount) ==
    CollectAt(<< >>, ConcatPositions(ids, positions), matrix, ids, maxCount)

\* The erase(remove_if(...)) of lines 283-287, 305-309 and 346-350: only the
\* ids that still exist in the catalog are reported.
RemoveMissingKeepsAll(ids, existing) == ids

RemoveMissing(ids, existing) == SelectSeq(ids, LAMBDA e : e \in existing)

\* getSimilarTracks, lines 272-291.
getSimilarTracks(ids, maxCount) ==
    RemoveMissing(getSimilarObjects(ids, trackMatrix, trackPositions, maxCount), tracksDb)

getSimilarTracksOfFirstListTrack(listId, maxCount) ==
    getSimilarTracks(IF TrackListIds(listId) = << >> THEN << >>
                     ELSE << Head(TrackListIds(listId)) >>, maxCount)

\* getSimilarTracksFromTrackList, lines 251-270.
getSimilarTracksFromTrackList(listId, maxCount) ==
    getSimilarTracks(TrackListIds(listId), maxCount)

\* getSimilarReleases, lines 293-313.
getSimilarReleases(releaseId, maxCount) ==
    RemoveMissing(getSimilarObjects(<< releaseId >>, releaseMatrix, releasePositions, maxCount),
                  releasesDb)

SimilarArtistIdsOfOneType(artistId, linkTypes, maxCount) ==
    IF "Artist" \in linkTypes \cap DOMAIN artistMatrix
    THEN Range(getSimilarObjects(<< artistId >>, artistMatrix["Artist"], artistPositions, maxCount))
    ELSE {}

\* Lines 318-337 of getSimilarArtists: the union over the link types of the
\* candidates of each type's matrix; a type with no matrix gives none.
SimilarArtistIds(artistId, linkTypes, maxCount) ==
    UNION { Range(getSimilarObjects(<< artistId >>, artistMatrix[lt], artistPositions, maxCount)) :
                lt \in linkTypes \cap DOMAIN artistMatrix }

\* All orders of a finite set.
Perms(S) ==
    { s \in [1 .. Cardinality(S) -> S] : \A a, b \in DOMAIN s : a # b => s[a] # s[b] }

getSimilarArtistsUntrimmed(artistId, linkTypes, maxCount) ==
    Perms(SimilarArtistIds(artistId, linkTypes, maxCount) \cap artistsDb)

\* getSimilarArtists, lines 315-357: every result the call can return.  The
\* candidates come out of an unordered set in any order, those missing from
\* the catalog are removed, and random ones are erased until at most
\* maxCount are left.
getSimilarArtists(artistId, linkTypes, maxCount) ==
    LET existing == SimilarArtistIds(artistId, linkTypes, maxCount) \cap artistsDb
    IN  IF Cardinality(existing) <= maxCount THEN Perms(existing)
        ELSE UNION { Perms(T) : T \in { T \in SUBSET existing : Cardinality(T) = maxCount } }

QueryTrackIds == { << t >> : t \in Tracks } \cup { << 1, 2 >> }

QueryCounts == 1 .. MaxQueryCount

QueryFrameEmptyingCells ==
    /\ pc # "crashed"
    /\ lastQuery = NoQuery
    /\ trackMatrix' = NewMatrix(trackMatrix.width, trackMatrix.height)
    /\ UNCHANGED << outsideVars, cache, network, networkRefVectorsDistanceMedian,
                    trackPositions, releasePositions, releaseMatrix, artistPositions,
                    artistMatrix, loadCancelled, pc, path, localVars,
                    loads, deletes, entry, loaded, hist >>

\* A similarity query is run by any thread at any moment of the engine's
\* life; it changes nothing but the result it hands back.
QueryFrame ==
    /\ pc # "crashed"
    /\ lastQuery = NoQuery
    /\ UNCHANGED << outsideVars, cache, engineVars, loadCancelled, pc, path, localVars,
                    loads, deletes, entry, loaded, hist >>

GetSimilarTracks ==
    /\ QueryFrame
    /\ \E ids \in QueryTrackIds, n \in QueryCounts :
        lastQuery' = [op |-> "getSimilarTracks", ids |-> ids, linkTypes |-> {}, maxCount |-> n,
                      res |-> getSimilarTracks(ids, n)]

GetSimilarTracksFromTrackList ==
    /\ QueryFrame
    /\ \E l \in TrackLists, n \in QueryCounts :
        lastQuery' = [op |-> "getSimilarTracksFromTrackList",
                      ids |-> TrackListIds(l), linkTypes |-> {}, maxCount |-> n,
                      res |-> getSimilarTracksFromTrackList(l, n)]

GetSimilarReleases ==
    /\ QueryFrame
    /\ \E r \in Releases, n \in QueryCounts :
        lastQuery' = [op |-> "getSimilarReleases", ids |-> << r >>, linkTypes |-> {},
                      maxCount |-> n,
                      res |-> getSimilarReleases(r, n)]

GetSimilarArtists ==
    /\ QueryFrame
    /\ \E a \in Artists, lts \in SUBSET LinkTypes, n \in QueryCounts :
        \E res \in getSimilarArtists(a, lts, n) :
            lastQuery' = [op |-> "getSimilarArtists", ids |-> << a >>, linkTypes |-> lts,
                          maxCount |-> n,
                          res |-> res]

\* The caller takes the query's result; the engine's next step is after it.
QueryReturn ==
    /\ lastQuery # NoQuery
    /\ lastQuery' = NoQuery
    /\ UNCHANGED << outsideVars, cache, engineVars, loadCancelled, pc, path, localVars,
                    loads, deletes, entry, loaded, hist >>

\* The engine with its loads, the cancellation request and the catalog's
\* changes.
Next ==
    \/ \E f \in BOOLEAN : Load(f)
    \/ \E c \in StoredCaches : LoadFromCache(c)
    \/ FetchStep
    \/ TrainStep
    \/ ClassifyStep
    \/ IndexStep
    \/ WriteStep
    \/ RequestCancelLoad
    \/ \E t \in Tracks : DeleteTrack(t)
    \/ RemoveOrphans

Spec == Init /\ [][Next]_vars

\* The engine with its loads, the cancellation request and the removal of
\* tracks from the catalog.
NextCancel ==
    \/ \E f \in BOOLEAN : Load(f)
    \/ \E c \in StoredCaches : LoadFromCache(c)
    \/ FetchStep
    \/ TrainStep
    \/ ClassifyStep
    \/ IndexStep
    \/ WriteStep
    \/ RequestCancelLoad
    \/ \E t \in Tracks : DeleteTrack(t)

SpecCancel == Init /\ [][NextCancel]_vars

\* The engine with its loads, the catalog's changes and the similarity
\* queries of other threads, on a catalog whose tracks all have features.
InitQuery == Init /\ features = [t \in Tracks |-> "ok"]

NextQuery ==
    \/ \E f \in BOOLEAN : Load(f)
    \/ \E c \in StoredCaches : LoadFromCache(c)
    \/ FetchStep
    \/ TrainStep
    \/ ClassifyStep
    \/ IndexStep
    \/ WriteStep
    \/ \E t \in Tracks : DeleteTrack(t)
    \/ RemoveOrphans
    \/ GetSimilarTracks
    \/ GetSimilarTracksFromTrackList
    \/ GetSimilarReleases
    \/ GetSimilarArtists
    \/ QueryReturn

SpecQuery == InitQuery /\ [][NextQuery]_vars

\* The engine with its loads alone, started with the cache file absent,
\* unreadable or stored.
InitRead ==
    /\ features \in FeatureConfigs
    /\ progressCallback = TRUE
    /\ sampleCountPerNeuron = DefaultSampleCountPerNeuron
    /\ call = NoCall
    /\ cache \in {NoCache, UnreadableCache} \cup StoredCaches
    /\ InitEngine

NextRead ==
    \/ \E f \in BOOLEAN : Load(f)
    \/ FetchStep
    \/ TrainStep
    \/ ClassifyStep
    \/ IndexStep
    \/ WriteStep

SpecRead == InitRead /\ [][NextRead]_vars

\* The engine with its loads and the cancellation request, called with a
\* progress callback or with none.
InitProgress ==
    /\ features \in FeatureConfigs
    /\ progressCallback \in BOOLEAN
    /\ sampleCountPerNeuron = DefaultSampleCountPerNeuron
    /\ call = NoCall
    /\ cache \in {NoCache} \cup StoredCaches
    /\ InitEngine

NextProgress ==
    \/ \E f \in BOOLEAN : Load(f)
    \/ FetchStep
    \/ TrainStep
    \/ ClassifyStep
    \/ IndexStep
    \/ WriteStep
    \/ RequestCancelLoad

SpecProgress == InitProgress /\ [][NextProgress]_vars

\* The values of TrainSettings::sampleCountPerNeuron tried: 4 (the default),
\* 1, 1/2 and 5/2.
SampleCountsPerNeuron == { << 4, 1 >>, << 1, 1 >>, << 1, 2 >>, << 5, 2 >> }

\* loadFromTraining at line 186, on a catalog of n tracks that all gave a
\* sample: the sample loop is over and the network is about to be sized.
InitGrid ==
    /\ \E n \in (1 .. MaxSampleCount) \cup {400} :
          /\ tracksDb = 1 .. n
          /\ features = [t \in 1 .. n |-> "ok"]
          /\ samples = [k \in 1 .. n |-> 1]
          /\ samplesTrackIds = [k \in 1 .. n |-> k]
    /\ sampleCountPerNeuron \in SampleCountsPerNeuron
    /\ call = NoCall
    /\ releasesDb = Releases
    /\ artistsDb = Artists
    /\ progressCallback = TRUE
    /\ cache = NoCache
    /\ network = NoNetwork
    /\ networkRefVectorsDistanceMedian = 0
    /\ trackPositions = EmptyIndex.trackPositions
    /\ trackMatrix = EmptyIndex.trackMatrix
    /\ releasePositions = EmptyIndex.releasePositions
    /\ releaseMatrix = EmptyIndex.releaseMatrix
    /\ artistPositions = EmptyIndex.artistPositions
    /\ artistMatrix = EmptyIndex.artistMatrix
    /\ loadCancelled = FALSE
    /\ other = IdleThread
    /\ pc = "fetch"
    /\ path = "train"
    /\ trackIds = << >>
    /\ lnetwork = NoNetwork
    /\ ltrackPositions = EmptyPositions(Tracks)
    /\ i = 0
    /\ todo = {}
    /\ progress = << >>
    /\ lastQuery = NoQuery
    /\ loads = 1
    /\ deletes = 0
    /\ entry = EngineModel
    /\ loaded = NoCache
    /\ hist = NoHist

NextGrid == FetchStep

SpecGrid == InitGrid /\ [][NextGrid]_vars

\* An engine at rest on the whole catalog, before any load().
IdleEngine ==
    /\ features = [t \in Tracks |-> "ok"]
    /\ progressCallback = TRUE
    /\ sampleCountPerNeuron = DefaultSampleCountPerNeuron
    /\ cache = NoCache
    /\ InitEngine

\* ------------------------------------------------- vector dimensions
\* Three of the features, in the order the feature maps enumerate them, and
\* getFeatureDef(name).nbDimensions of each.
FeatureOrder == << "erbbands", "gfcc", "rolloff" >>

FeatureNames == Range(FeatureOrder)

FeatureNbDimensions(name) ==
    CASE name = "rolloff" -> 1
      [] name = "erbbands" -> 2
      [] OTHER -> 3

RECURSIVE SumNbDimensions(_)
SumNbDimensions(names) ==
    IF names = {} THEN 0
    ELSE LET f == CHOOSE f \in names : TRUE
         IN  FeatureNbDimensions(f) + SumNbDimensions(names \ {f})

nbFeatures(featureNames) == Cardinality(featureNames)

\* Lines 139-140: the accumulate over the feature names.
nbDimensions(featureNames) == SumNbDimensions(featureNames)

\* The slots written by a loop over the features of order that writes
\* count(f) slots for feature f, one after the other.
RECURSIVE WrittenSlots(_, _)
WrittenSlots(order, count) ==
    IF order = << >> THEN << >>
    ELSE [k \in 1 .. count[Head(order)] |-> Head(order)] \o WrittenSlots(Tail(order), count)

\* InputVector {n} after such a loop: n slots, the first ones written.
InputVector(n, written) ==
    [k \in 1 .. n |-> IF k <= Len(written) THEN written[k] ELSE "unset"]

\* getInputVectorWeights, lines 112-129.
getInputVectorWeights(featureSettingsMap, n) ==
    InputVector(n, WrittenSlots(SelectSeq(FeatureOrder, LAMBDA f : f \in featureSettingsMap),
                                [f \in FeatureNames |-> FeatureNbDimensions(f)]))

\* An empty std::optional<SOM::InputVector>.
NoVector == [hasValue |-> FALSE, vector |-> << >>]

\* convertFeatureValuesMapToInputVector, lines 90-110: no vector when a
\* feature's value count is not its declared one.
convertFeatureValuesMapToInputVector(featureValuesMap, n) ==
    IF \E f \in DOMAIN featureValuesMap : featureValuesMap[f] # FeatureNbDimensions(f)
    THEN NoVector
    ELSE [hasValue |-> TRUE,
          vector |-> InputVector(n, WrittenSlots(SelectSeq(FeatureOrder,
                                                     LAMBDA f : f \in DOMAIN featureValuesMap),
                                                 featureValuesMap))]

\* The value maps the feature source may hold for a track when asked for
\* the features of names: some of them, each with one to MaxValueCount
\* values.
FeatureValuesMaps(names) ==
    UNION { [present -> 1 .. MaxValueCount] : present \in SUBSET names }

\* loadFromTraining for its vectors' lengths alone: called with the feature
\* settings of the caller on a track whose value map is drawn.
InitDimensions ==
    /\ IdleEngine
    /\ \E names \in (SUBSET FeatureNames) \ {{}} :
          \E vm \in FeatureValuesMaps(names) :
             call = [fn |-> "loadFromTraining", featureSettingsMap |-> names,
                     featureValuesMap |-> vm, returned |-> FALSE]

\* Lines 136-141, 171-180 and 208-211: the dimensions, the track's sample
\* (none when the source has no value for it), the network and its data
\* weights.
TrainingDimensions ==
    /\ call.fn = "loadFromTraining"
    /\ ~call.returned
    /\ LET n == nbDimensions(call.featureSettingsMap)
       IN  call' = [fn |-> "loadFromTraining",
                    featureSettingsMap |-> call.featureSettingsMap,
                    featureValuesMap |-> call.featureValuesMap,
                    returned |-> TRUE,
                    nbDimensions |-> n,
                    sample |-> IF DOMAIN call.featureValuesMap = {} THEN NoVector
                               ELSE convertFeatureValuesMapToInputVector(call.featureValuesMap, n),
                    network |-> [dimensions |-> n,
                                 refVector |-> InputVector(n, << >>),
                                 dataWeights |-> getInputVectorWeights(call.featureSettingsMap, n)]]
    /\ UNCHANGED << catalogVars, callerVars, other, cache, engineVars, loadCancelled, pc, path, localVars,
                    lastQuery, loads, deletes, entry, loaded, hist >>

NextDimensions == TrainingDimensions

SpecDimensions == InitDimensions /\ [][NextDimensions]_vars

\* ------------------------------------------------- a load that keeps running
\* The steps of the thread inside load().
LoadStep ==
    \/ FetchStep
    \/ TrainStep
    \/ ClassifyStep
    \/ IndexStep
    \/ WriteStep

\* load() runs synchronously in its caller's thread, which the scheduler
\* does not starve: a step of load() that stays possible is taken.
SpecLive == InitProgress /\ [][NextProgress]_vars /\ WF_vars(LoadStep)

\* ------------------------------------------------- normalization steps
\* loadFromTraining from line 193 to the call of train, statement by
\* statement, on sample sets of one to three raw values.  The record keeps
\* the raw samples, the samples as the loop has left them, the factors of
\* the normalizer, the network once constructed, and the statements
\* executed so far.
RawSampleSets == UNION { [1 .. n -> 1 .. MaxRawValue] : n \in 1 .. 3 }

NoFactors == [min |-> 0, max |-> 0]

InitNormalize ==
    /\ IdleEngine
    /\ \E raw \in RawSampleSets :
          call = [fn |-> "normalize", at |-> "factors", raw |-> raw, samples |-> raw,
                  factors |-> NoFactors, k |-> 1, network |-> NoNetwork,
                  dataWeights |-> << >>, done |-> << >>]

FactorsRecomputed(c) == computeNormalizationFactors(c.samples)

\* The factors normalizeData applies: those the normalizer holds.
FactorsHeld(c) == c.factors

NormalizeFrame ==
    UNCHANGED << catalogVars, callerVars, other, cache, engineVars, loadCancelled, pc, path,
                 localVars, lastQuery, loads, deletes, entry, loaded, hist >>

\* Line 196.
ComputeNormalizationFactors ==
    /\ call.fn = "normalize"
    /\ call.at = "factors"
    /\ call' = [call EXCEPT !.factors = computeNormalizationFactors(call.samples),
                            !.at = "normalize",
                            !.done = Append(@, [stmt |-> "factors", k |-> 0])]
    /\ NormalizeFrame

\* Lines 197-198, one pass of the loop.
NormalizeSample ==
    /\ call.fn = "normalize"
    /\ call.at = "normalize"
    /\ IF call.k <= Len(call.samples)
       THEN call' = [call EXCEPT !.samples[call.k] = normalizeData(FactorsHeld(call), @),
                                 !.k = @ + 1,
                                 !.done = Append(@, [stmt |-> "normalize", k |-> call.k])]
       ELSE call' = [call EXCEPT !.at = "network"]
    /\ NormalizeFrame

\* Lines 200-208.
ConstructNetwork ==
    /\ call.fn = "normalize"
    /\ call.at = "network"
    /\ \E n \in NewNetworks(GridSize(Len(call.samples), sampleCountPerNeuron)) :
          call' = [call EXCEPT !.network = n, !.at = "weights",
                               !.done = Append(@, [stmt |-> "network", k |-> 0])]
    /\ NormalizeFrame

\* Lines 210-211.
SetDataWeights ==
    /\ call.fn = "normalize"
    /\ call.at = "weights"
    /\ call' = [call EXCEPT
                   !.dataWeights = getInputVectorWeights(FeatureNames, nbDimensions(FeatureNames)),
                   !.at = "train",
                   !.done = Append(@, [stmt |-> "weights", k |-> 0])]
    /\ NormalizeFrame

\* Lines 219-222: train is called.
CallTrain ==
    /\ call.fn = "normalize"
    /\ call.at = "train"
    /\ call' = [call EXCEPT !.at = "training",
                            !.done = Append(@, [stmt |-> "train", k |-> 0])]
    /\ NormalizeFrame

NextNormalize ==
    \/ ComputeNormalizationFactors
    \/ NormalizeSample
    \/ ConstructNetwork
    \/ SetDataWeights
    \/ CallTrain

SpecNormalize == InitNormalize /\ [][NextNormalize]_vars

\* ------------------------------------------------- repeated positions
\* Cache files of the stored network whose track positions repeat a
\* position for one track and give one position to several tracks.
RepeatingCaches ==
    { [network |-> StoredNetwork,
       trackPositions |-> [t \in Tracks |->
           CASE t = 1 -> << <<1, 1>>, <<1, 1>>, <<0, 0>> >>
             [] t = 2 -> << <<1, 1>> >>
             [] OTHER -> << <<1, 1>>, <<0, 0>>, <<1, 1>> >>]],
      [network |-> StoredNetwork,
       trackPositions |-> [t \in Tracks |->
           CASE t = 1 -> << <<0, 0>> >>
             [] t = 2 -> << <<0, 0>>, <<0, 0>> >>
             [] OTHER -> << >>]] }

\* The engine loading such caches, once and again, on a catalog that loses
\* tracks; the grid is the same at every load.
NextIndex ==
    \/ \E c \in RepeatingCaches : LoadFromCache(c)
    \/ IndexStep
    \/ RequestCancelLoad
    \/ \E t \in Tracks : DeleteTrack(t)

InitIndex ==
    /\ IdleEngine
    /\ call = NoCall

SpecIndex == InitIndex /\ [][NextIndex]_vars

\* ------------------------------------------------- two callers of load()
\* The thread that runs, as the record kept of one that does not.
RunningThread ==
    [pc |-> pc, path |-> path, trackIds |-> trackIds, samples |-> samples,
     samplesTrackIds |-> samplesTrackIds, lnetwork |-> lnetwork,
     ltrackPositions |-> ltrackPositions, i |-> i, todo |-> todo, progress |-> progress,
     entry |-> entry, loaded |-> loaded, hist |-> hist]

\* load() takes no lock and tests nothing before it starts (lines 365-384):
\* a second thread may be inside it between any two steps of the first.  The
\* scheduler passes the processor from the running thread to the other one.
SwitchThread ==
    /\ lastQuery = NoQuery
    /\ pc # "crashed"
    /\ other.pc # "crashed"
    /\ other # RunningThread
    /\ other' = RunningThread
    /\ pc' = other.pc
    /\ path' = other.path
    /\ trackIds' = other.trackIds
    /\ samples' = other.samples
    /\ samplesTrackIds' = other.samplesTrackIds
    /\ lnetwork' = other.lnetwork
    /\ ltrackPositions' = other.ltrackPositions
    /\ i' = other.i
    /\ todo' = other.todo
    /\ progress' = other.progress
    /\ entry' = other.entry
    /\ loaded' = other.loaded
    /\ hist' = other.hist
    /\ UNCHANGED << catalogVars, callerVars, call, cache, engineVars, loadCancelled,
                    lastQuery, loads, deletes >>

\* Two threads calling load() on one engine whose catalog has usable
\* features for every track.
InitConcurrent ==
    /\ features = [t \in Tracks |-> "ok"]
    /\ progressCallback = TRUE
    /\ sampleCountPerNeuron = DefaultSampleCountPerNeuron
    /\ call = NoCall
    /\ cache \in {NoCache} \cup StoredCaches
    /\ InitEngine

NextConcurrent ==
    \/ \E f \in BOOLEAN : Load(f)
    \/ FetchStep
    \/ TrainStep
    \/ ClassifyStep
    \/ IndexStep
    \/ WriteStep
    \/ SwitchThread

SpecConcurrent == InitConcurrent /\ [][NextConcurrent]_vars

\* ------------------------------------------------- TrackList::getEntries
\* The tracklist_entry table: rows in the order of their creation, which is
\* the order of their ids; the rows of track list 1 alternate with rows of
\* another list.
EntryTable(n) ==
    [k \in 1 .. 2 * n |-> [id |-> k, tracklist_id |-> IF k % 2 = 1 THEN 1 ELSE 2]]

NoRange == [hasValue |-> FALSE, offset |-> 0, size |-> 0]

\* The rows of a query after offset(o) and limit(l); -1 stands for none.
LimitOffset(rows, l, o) ==
    LET from == IF o < 0 THEN 1 ELSE o + 1
        to == IF l < 0 THEN Len(rows) ELSE Min2(Len(rows), from + l - 1)
    IN  SubSeq(rows, from, to)

\* TrackList::getEntries, TrackList.cpp lines 151-164, on list listId.
getEntries(table, listId, range) ==
    LimitOffset(SelectSeq(table, LAMBDA row : row.tracklist_id = listId),
                IF range.hasValue THEN range.size + 1 ELSE -1,
                IF range.hasValue THEN range.offset ELSE -1)

InitEntries ==
    /\ IdleEngine
    /\ \E n \in 0 .. MaxEntries :
          \E range \in {NoRange} \cup [hasValue : {TRUE}, offset : 0 .. MaxEntries,
                                       size : 0 .. MaxEntries] :
             call = [fn |-> "getEntries", table |-> EntryTable(n), range |-> range,
                     returned |-> FALSE, result |-> << >>]

GetEntries ==
    /\ call.fn = "getEntries"
    /\ ~call.returned
    /\ call' = [call EXCEPT !.returned = TRUE,
                            !.result = getEntries(call.table, 1, call.range)]
    /\ UNCHANGED << catalogVars, callerVars, other, cache, engineVars, loadCancelled, pc, path,
                    localVars, lastQuery, loads, deletes, entry, loaded, hist >>

NextEntries == GetEntries

SpecEntries == InitEntries /\ [][NextEntries]_vars

\* The loop of lines 411-448 over the entries of order.
RECURSIVE IndexAll(_, _, _, _, _, _)
IndexAll(ix, order, positions, w, h, db) ==
    IF order = << >> THEN ix
    ELSE IndexAll(IndexTrack(ix, Head(order), positions[Head(order)], w, h, db),
                  Tail(order), positions, w, h, db)

\* Cache values handed to loadFromCache before the queries are asked: the
\* stored one, one with the three tracks in one cell, and one with track 1
\* at two positions that it shares with tracks 2 and 3.
AskCaches ==
    StoredCaches \cup
    { [network |-> StoredNetwork,
       trackPositions |-> [t \in Tracks |-> << <<1, 1>> >>]],
      [network |-> StoredNetwork,
       trackPositions |-> [t \in Tracks |-> IF t = 1 THEN << <<0, 0>>, <<0, 1>> >>
                                            ELSE IF t = 2 THEN << <<0, 0>> >>
                                            ELSE << <<0, 1>> >>]] }

\* The index after load(c.network, c.trackPositions) has run to its end on
\* an engine whose index was ix, with the tracks of db in the catalog.
LoadedIndex(ix, c, db) ==
    IndexAll(ResetMatrices(ix, c.network.width, c.network.height),
             InIdOrder({ t \in Tracks : c.trackPositions[t] # << >> }),
             c.trackPositions, c.network.width, c.network.height, db)

\* The query functions on their inputs: an engine that has adopted two cache
\* values one after the other (twice the same for a single model), then the
\* catalog's changes and the queries.
InitAsk ==
    /\ tracksDb = Tracks
    /\ releasesDb = Releases
    /\ artistsDb = Artists
    /\ features = [t \in Tracks |-> "ok"]
    /\ cache = NoCache
    /\ \E c1 \in AskCaches, c2 \in AskCaches :
          /\ entry = [network |-> c1.network,
                      median |-> computeRefVectorsDistanceMedian(c1.network),
                      index |-> LoadedIndex(EmptyIndex, c1, Tracks)]
          /\ loaded = c2
          /\ network = c2.network
          /\ networkRefVectorsDistanceMedian = computeRefVectorsDistanceMedian(c2.network)
          /\ LET ix == LoadedIndex(LoadedIndex(EmptyIndex, c1, Tracks), c2, Tracks)
             IN  /\ trackPositions = ix.trackPositions
                 /\ trackMatrix = ix.trackMatrix
                 /\ releasePositions = ix.releasePositions
                 /\ releaseMatrix = ix.releaseMatrix
                 /\ artistPositions = ix.artistPositions
                 /\ artistMatrix = ix.artistMatrix
    /\ loadCancelled = FALSE
    /\ other = IdleThread
    /\ pc = "idle"
    /\ path = "cache"
    /\ trackIds = << >>
    /\ samples = << >>
    /\ samplesTrackIds = << >>
    /\ progress = << >>
    /\ progressCallback = TRUE
    /\ sampleCountPerNeuron = DefaultSampleCountPerNeuron
    /\ call = NoCall
    /\ lnetwork = NoNetwork
    /\ ltrackPositions = EmptyPositions(Tracks)
    /\ i = 0
    /\ todo = {}
    /\ lastQuery = NoQuery
    /\ loads = 2
    /\ deletes = 0
    /\ hist = [NoHist EXCEPT !.published = TRUE]

NextAsk ==
    \/ \E t \in Tracks : DeleteTrack(t)
    \/ RemoveOrphans
    \/ GetSimilarTracks
    \/ GetSimilarTracksFromTrackList
    \/ GetSimilarReleases
    \/ GetSimilarArtists
    \/ QueryReturn

SpecAsk == InitAsk /\ [][NextAsk]_vars

\* ------------------------------------------------- a smaller grid
\* A cache file of a 3 x 3 network, left by a training on a larger catalog.
LargeCache ==
    [network |-> [width |-> 3, height |-> 3,
                  refVectors |-> [p \in Grid(3, 3) |-> Min2(p[1] + p[2], NormScale)]],
     trackPositions |-> [t \in Tracks |-> IF t = 1 THEN << <<2, 2>> >>
                                          ELSE IF t = 2 THEN << <<0, 0>> >>
                                          ELSE << <<2, 1>> >>]]

\* An engine that has adopted the 3 x 3 model, on the whole catalog.
InitResize ==
    /\ tracksDb = Tracks
    /\ releasesDb = Releases
    /\ artistsDb = Artists
    /\ features = [t \in Tracks |-> "ok"]
    /\ progressCallback = TRUE
    /\ sampleCountPerNeuron = DefaultSampleCountPerNeuron
    /\ call = NoCall
    /\ other = IdleThread
    /\ cache \in {NoCache} \cup StoredCaches
    /\ network = LargeCache.network
    /\ networkRefVectorsDistanceMedian = computeRefVectorsDistanceMedian(LargeCache.network)
    /\ LET ix == LoadedIndex(EmptyIndex, LargeCache, Tracks)
       IN  /\ trackPositions = ix.trackPositions
           /\ trackMatrix = ix.trackMatrix
           /\ releasePositions = ix.releasePositions
           /\ releaseMatrix = ix.releaseMatrix
           /\ artistPositions = ix.artistPositions
           /\ artistMatrix = ix.artistMatrix
    /\ loadCancelled = FALSE
    /\ pc = "idle"
    /\ path = "cache"
    /\ trackIds = << >>
    /\ samples = << >>
    /\ samplesTrackIds = << >>
    /\ progress = << >>
    /\ lnetwork = NoNetwork
    /\ ltrackPositions = EmptyPositions(Tracks)
    /\ i = 0
    /\ todo = {}
    /\ lastQuery = NoQuery
    /\ loads = 1
    /\ deletes = 0
    /\ entry = [network |-> NoNetwork, median |-> 0, index |-> EmptyIndex]
    /\ loaded = LargeCache
    /\ hist = [NoHist EXCEPT !.published = TRUE]

\* The reloads of that engine: from the cache file or by a training, both
\* of which give a 2 x 2 network on this catalog.
NextResize ==
    \/ \E f \in BOOLEAN : Load(f)
    \/ FetchStep
    \/ TrainStep
    \/ ClassifyStep
    \/ IndexStep
    \/ WriteStep
    \/ RequestCancelLoad
    \/ \E t \in Tracks : DeleteTrack(t)

SpecResize == InitResize /\ [][NextResize]_vars

\* ------------------------------------------------- after a cancellation
\* An engine on which requestCancelLoad() has been called and no load() is
\* running: a fresh one, or one that holds the stored model.
InitCancelled ==
    /\ tracksDb = Tracks
    /\ releasesDb = Releases
    /\ artistsDb = Artists
    /\ features \in FeatureConfigs
    /\ progressCallback = TRUE
    /\ sampleCountPerNeuron = DefaultSampleCountPerNeuron
    /\ call = NoCall
    /\ other = IdleThread
    /\ cache \in {NoCache} \cup StoredCaches
    /\ \/ /\ network = NoNetwork
          /\ networkRefVectorsDistanceMedian = 0
          /\ trackPositions = EmptyIndex.trackPositions
          /\ trackMatrix = EmptyIndex.trackMatrix
          /\ releasePositions = EmptyIndex.releasePositions
          /\ releaseMatrix = EmptyIndex.releaseMatrix
          /\ artistPositions = EmptyIndex.artistPositions
          /\ artistMatrix = EmptyIndex.artistMatrix
          /\ loaded = NoCache
          /\ hist = NoHist
       \/ \E c \in StoredCaches :
             /\ network = c.network
             /\ networkRefVectorsDistanceMedian = computeRefVectorsDistanceMedian(c.network)
             /\ LET ix == LoadedIndex(EmptyIndex, c, Tracks)
                IN  /\ trackPositions = ix.trackPositions
                    /\ trackMatrix = ix.trackMatrix
                    /\ releasePositions = ix.releasePositions
                    /\ releaseMatrix = ix.releaseMatrix
                    /\ artistPositions = ix.artistPositions
                    /\ artistMatrix = ix.artistMatrix
             /\ loaded = c
             /\ hist = [NoHist EXCEPT !.published = TRUE]
    /\ loadCancelled = TRUE
    /\ pc = "idle"
    /\ path = "none"
    /\ trackIds = << >>
    /\ samples = << >>
    /\ samplesTrackIds = << >>
    /\ progress = << >>
    /\ lnetwork = NoNetwork
    /\ ltrackPositions = EmptyPositions(Tracks)
    /\ i = 0
    /\ todo = {}
    /\ lastQuery = NoQuery
    /\ loads = 0
    /\ deletes = 0
    /\ entry = EngineModel

\* The loads that follow, with further cancellation requests and the
\* catalog's changes.  No such load comes to the training or to the
\* classification, whose steps have nothing to do here.
NextCancelled ==
    \/ \E f \in BOOLEAN : Load(f)
    \/ FetchStep
    \/ IndexStep
    \/ WriteStep
    \/ RequestCancelLoad
    \/ \E t \in Tracks : DeleteTrack(t)

SpecCancelled == InitCancelled /\ [][NextCancelled]_vars

\* ------------------------------------------------- readers
\* toCache() called on its own, line 362: the copy it returns.  Without a
\* network the dereference is undefined: the process stops, or the copy
\* holds whatever was read.
ToCache ==
    /\ pc # "crashed"
    /\ call = NoCall
    /\ IF network # NoNetwork
       THEN /\ call' = [fn |-> "toCache", result |-> toCache]
            /\ UNCHANGED pc
       ELSE \/ /\ pc' = "crashed"
               /\ UNCHANGED call
            \/ /\ \E n \in NewNetworks(2) :
                     call' = [fn |-> "toCache",
                              result |-> [network |-> n, trackPositions |-> trackPositions]]
               /\ UNCHANGED pc
    /\ UNCHANGED << catalogVars, callerVars, other, cache, engineVars, loadCancelled, path,
                    localVars, lastQuery, loads, deletes, entry, loaded, hist >>

\* The loaded engine with its queries, toCache and the catalog's changes.
NextReaders ==
    \/ \E t \in Tracks : DeleteTrack(t)
    \/ RemoveOrphans
    \/ GetSimilarTracks
    \/ GetSimilarTracksFromTrackList
    \/ GetSimilarReleases
    \/ GetSimilarArtists
    \/ QueryReturn
    \/ ToCache

SpecReaders == InitAsk /\ [][NextReaders]_vars

\* ------------------------------------------------------------- properties
\* load() is between its entry and the installation of the network.
Loading == pc \in {"fetch", "train", "classify", "index"}

\* A load() has returned after installing a network.
Completed == pc = "idle" /\ hist.published

\* What a freshly constructed engine holds after load(m.network,
\* m.trackPositions) has run to its end with the tracks of db in the
\* catalog.
FreshModel(m, db) ==
    [network |-> m.network,
     median |-> computeRefVectorsDistanceMedian(m.network),
     index |-> IndexAll(ResetMatrices(EmptyIndex, m.network.width, m.network.height),
                        InIdOrder({ t \in Tracks : m.trackPositions[t] # << >> }),
                        m.trackPositions, m.network.width, m.network.height, db)]

\* The catalogs a load() may have seen while the tracks went from all of
\* them to those of now.
SeenCatalogs == { db \in SUBSET Tracks : tracksDb \subseteq db }

\* C1: the cache is written only by a load() that trained: its sample set was
\* not empty, no loop was ended by the cancel flag, the network was
\* installed, and the flag was not set at the write.  (Stated for the writes
\* that read an installed network, whose content is defined.)
C1_CacheWrittenOnlyAfterTraining ==
    (hist.wrote /\ network # NoNetwork)
               => /\ path = "train"
                  /\ hist.published
                  /\ ~hist.empty
                  /\ hist.abortedAt = "none"
                  /\ ~hist.flagAtReturn

\* C2: when a training load() that a poll of the cancel flag ended has
\* returned, the engine's network, median distance, position maps and
\* matrices are those of the load()'s entry.  (Stated for an engine that
\* held a model at the entry.)
C2_CancelledLoadLeavesModel ==
    (pc = "idle" /\ path = "train" /\ hist.abortedAt # "none" /\ entry.network # NoNetwork)
        => EngineModel = entry

\* C3: a query that runs while load() is under way reads the whole previous
\* model or the whole new one, never reset or partly filled structures.
\* (Stated for an engine that held a model at the load()'s entry.)
C3_QueryReadsWholeModel ==
    [][ (lastQuery = NoQuery /\ lastQuery' # NoQuery /\ Loading /\ entry.network # NoNetwork)
            => \/ EngineModel = entry
               \/ /\ pc = "index"
                  /\ \E db \in SeenCatalogs : EngineModel = FreshModel(loaded, db) ]_vars

\* C4: after loadFromCache(C) has run to its end with every track of C in
\* the catalog, toCache() returns C's network and track positions.
C4_CacheRoundTrip ==
    (/\ Completed
     /\ path = "cache"
     /\ \A t \in Tracks : loaded.trackPositions[t] # << >> => t \in tracksDb)
        => toCache = loaded

\* The tracks the catalog's relation gives a release.
TracksOf(r) == { t \in Tracks : TrackRelease(t) = r }

\* The tracks that have positions in the model last handed to load().
InLoadedModel == { t \in Tracks : loaded.trackPositions[t] # << >> }

\* The positions the track index holds for those tracks of S that are on r.
TrackUnion(r, S) == UNION { Range(trackPositions[t]) : t \in TracksOf(r) \cap S }

\* The positions the loaded model gives the tracks of r.
LoadedUnion(r) == UNION { Range(loaded.trackPositions[t]) : t \in TracksOf(r) }

\* C5: after a completed load() (the catalog unchanged since its entry) the
\* positions of every release are the union of the positions of its tracks,
\* for one at least of the readings of "its tracks": those of the catalog,
\* those of the loaded model, those of both, with the positions of the track
\* index, or those of the loaded model with the positions the model gives.
C5_ReleasePositionsAreTrackUnion ==
    (Completed /\ deletes = hist.deletesAtEntry) =>
        \/ \A r \in Releases : Range(releasePositions[r]) = TrackUnion(r, tracksDb)
        \/ \A r \in Releases : Range(releasePositions[r]) = TrackUnion(r, InLoadedModel)
        \/ \A r \in Releases :
              Range(releasePositions[r]) = TrackUnion(r, tracksDb \cap InLoadedModel)
        \/ \A r \in Releases : Range(releasePositions[r]) = LoadedUnion(r)

\* C6: after a completed load() of a model the index is the one a fresh
\* engine builds from that model and the catalog.
C6_IndexRebuiltFromModelAlone ==
    Completed => \E db \in SeenCatalogs : EngineModel = FreshModel(loaded, db)

\* C7: a training load() that found the cancel flag set before its first
\* training iteration returns with the engine's model as at its entry and
\* without a cache write.
C7_CancelBeforeTraining ==
    (pc = "idle" /\ path = "train" /\ hist.cancelBeforeTrain)
        => (EngineModel = entry /\ ~hist.wrote)

\* C7's case: a load() of an engine that holds a model was entered with the
\* flag set, reached its sample loop and returned.
C7_Witness ==
    /\ pc = "idle"
    /\ path = "train"
    /\ hist.cancelBeforeTrain
    /\ hist.abortedAt = "fetch"
    /\ entry.network # NoNetwork

\* Every result each query can return when asked for MaxQueryCount
\* entities (of all link types, for an artist), by its other arguments.
QueryResults ==
    [tracks   |-> [a \in QueryTrackIds |-> getSimilarTracks(a, MaxQueryCount)],
     lists    |-> [a \in TrackLists |-> getSimilarTracksFromTrackList(a, MaxQueryCount)],
     releases |-> [a \in Releases |-> getSimilarReleases(a, MaxQueryCount)],
     artists  |-> [a \in Artists |-> getSimilarArtists(a, LinkTypes, MaxQueryCount)]]

\* C8: the step that sets the cancel flag after load() has returned with a
\* model changes neither the engine's model nor the cache nor any query's
\* result.
C8_CancelAfterLoadChangesOnlyFlag ==
    [][ (~loadCancelled /\ loadCancelled' /\ pc = "idle" /\ network # NoNetwork)
            => /\ EngineModel' = EngineModel
               /\ cache' = cache
               /\ QueryResults' = QueryResults ]_vars

\* C8's case: the flag was set after a load() had installed a network and
\* returned with the flag clear, and queries still find entities.
C8_Witness ==
    /\ loadCancelled
    /\ Completed
    /\ ~hist.flagAtReturn
    /\ network # NoNetwork
    /\ getSimilarTracks(<< 1 >>, MaxQueryCount) # << >>

\* C9: a load() that found no usable sample does not stop the process,
\* creates no network and returns with the engine's model as at its entry.
C9_EmptyCorpusKeepsModel ==
    hist.empty => /\ pc # "crashed"
                  /\ pc = "idle" => EngineModel = entry

\* C10: no query hands back an entity that is missing from the catalog,
\* whatever the index holds for it.
C10_StaleEntitiesNeverReported ==
    /\ lastQuery.op \in {"getSimilarTracks", "getSimilarTracksFromTrackList"}
          => Range(lastQuery.res) \subseteq tracksDb
    /\ lastQuery.op = "getSimilarReleases" => Range(lastQuery.res) \subseteq releasesDb
    /\ lastQuery.op = "getSimilarArtists" => Range(lastQuery.res) \subseteq artistsDb

\* C10's case: a release query has returned while the release matrix held,
\* in a cell of the query's release, a release that the catalog has lost.
C10_Witness ==
    /\ lastQuery.op = "getSimilarReleases"
    /\ \E r \in Releases, n \in QueryCounts :
          /\ lastQuery.res = getSimilarReleases(r, n)
          /\ \E e \in Range(getSimilarObjects(<< r >>, releaseMatrix, releasePositions, n)) :
                e \notin releasesDb

\* C11: no query returns one of its own query entities: a track query none
\* of its ids (those of the track list for a list query), a release query
\* not its release, an artist query not its artist.
C11_NoSelfMatch == Range(lastQuery.res) \cap Range(lastQuery.ids) = {}

\* C11's case: a track query has returned entities found in a cell that also
\* holds one of the query's tracks.
C11_Witness ==
    /\ lastQuery.op = "getSimilarTracks"
    /\ lastQuery.res # << >>
    /\ \E t \in Range(lastQuery.ids) : \E k \in DOMAIN trackPositions[t] :
          t \in Range(Cell(trackMatrix, trackPositions[t][k]))

\* A sequence that holds no element twice.
NoDuplicate(seq) == Cardinality(Range(seq)) = Len(seq)

\* C12: every query returns at most maxCount entries, none of them twice.
C12_CapRespected ==
    lastQuery # NoQuery =>
        Len(lastQuery.res) <= lastQuery.maxCount /\ NoDuplicate(lastQuery.res)

\* C12's case: an artist query has returned maxCount artists while its link
\* types gave together more existing artists than that.
C12_Witness ==
    /\ lastQuery.op = "getSimilarArtists"
    /\ Len(lastQuery.res) = lastQuery.maxCount
    /\ Cardinality(SimilarArtistIds(lastQuery.ids[1], LinkTypes, lastQuery.maxCount)
                     \cap artistsDb) > lastQuery.maxCount

\* The entities a query can be given back: those that exist in the catalog,
\* are none of the query entities, and stand in a matrix cell of one of the
\* query entities' positions.
Eligible(ids, matrix, positions, existing) ==
    { e \in existing \ Range(ids) :
        \E q \in Range(ids) : \E k \in DOMAIN positions[q] :
            e \in Range(Cell(matrix, positions[q][k])) }

\* C13: a track query or a release query returns fewer than maxCount
\* entities only if fewer than maxCount eligible entities exist.
C13_FewerOnlyIfFewerExist ==
    /\ (lastQuery.op \in {"getSimilarTracks", "getSimilarTracksFromTrackList"}
            /\ Len(lastQuery.res) < lastQuery.maxCount)
          => Cardinality(Eligible(lastQuery.ids, trackMatrix, trackPositions, tracksDb))
                < lastQuery.maxCount
    /\ (lastQuery.op = "getSimilarReleases" /\ Len(lastQuery.res) < lastQuery.maxCount)
          => Cardinality(Eligible(lastQuery.ids, releaseMatrix, releasePositions, releasesDb))
                < lastQuery.maxCount

\* C14: a load() that adopts the value of the readable cache fetches no
\* features, does not train, does not write the cache, and returns with the
\* cached network as the engine's network.
C14_CacheAdoptedWithoutTraining ==
    (path = "cache" /\ cache # NoCache /\ loaded = cache) =>
        /\ pc \in {"index", "idle"}
        /\ trackIds = << >> /\ samples = << >> /\ samplesTrackIds = << >>
        /\ ~hist.wrote
        /\ pc = "idle" => network = loaded.network

\* C15: a load() that trains (the cache invalidated at its entry or absent)
\* leaves the cache empty until it returns, and returns with the cache empty
\* or holding the network it trained.  (Stated for an engine that held a
\* model at the entry.)
C15_ForceReloadCache ==
    (path = "train" /\ entry.network # NoNetwork) =>
        /\ pc \in {"fetch", "train", "classify", "index", "write"} => cache = NoCache
        /\ pc = "idle" =>
              \/ cache = NoCache
              \/ hist.published /\ cache.network = loaded.network

\* C16: a load() entered while the cache file is absent or unreadable does
\* not fail and does not adopt anything: it starts the training of the
\* catalog's tracks on the unchanged engine, the same step whichever of the
\* two the file is, and nothing reads the file after it.
C16_CacheUnavailableFallsBack ==
    [][ (pc = "idle" /\ pc' # "idle" /\ cache \in {NoCache, UnreadableCache})
            => /\ pc' = "fetch"
               /\ path' = "train"
               /\ trackIds' = getAllIdsWithFeatures
               /\ samples' = << >> /\ samplesTrackIds' = << >>
               /\ EngineModel' = EngineModel
               /\ cache' \in {NoCache, UnreadableCache} ]_vars

\* C16's case: a load(false) entered with an unreadable cache file is
\* fetching the samples of its training.
C16_Witness ==
    /\ pc = "fetch"
    /\ path = "train"
    /\ cache = UnreadableCache
    /\ trackIds # << >>

StrictlyAscending(seq) == \A j, k \in DOMAIN seq : j < k => seq[j] < seq[k]

\* C17: in a training run the sample set holds, in catalog order, the
\* tracks whose fetch gave a value map of the declared dimensions and only
\* those; a track without one is passed over, the tracks after it are still
\* fetched, and the positions the run computes hold nothing for it.
C17_SamplesAreTheUsableTracks ==
    path = "train" =>
        /\ StrictlyAscending(samplesTrackIds)
        /\ Len(samples) = Len(samplesTrackIds)
        /\ \A t \in Range(samplesTrackIds) : features[t] = "ok"
        /\ pc \in {"fetch", "train", "classify", "index"} =>
              /\ \A t \in tracksDb : features[t] = "ok" =>
                    t \in Range(samplesTrackIds) \cup Range(trackIds)
              /\ \A t \in Tracks \ Range(samplesTrackIds) : ltrackPositions[t] = << >>
        /\ hist.published =>
              \A t \in Tracks : features[t] # "ok" => loaded.trackPositions[t] = << >>

\* C17's case: a training run passed over a track of the catalog whose value
\* map was empty or of the wrong dimensions and gave a position to a track
\* after it.
C17_Witness ==
    /\ path = "train"
    /\ hist.published
    /\ \E t \in tracksDb : \E u \in tracksDb :
          /\ t < u
          /\ features[t] \in {"mismatch", "empty"}
          /\ loaded.trackPositions[t] = << >>
          /\ loaded.trackPositions[u] # << >>

\* C18: once train() has stopped on the cancel flag, the network it leaves
\* is not classified against, is not handed to load(network, trackPositions),
\* does not become the engine's network, and the load writes no cache.
C18_AbortedNetworkNeverUsed ==
    (path = "train" /\ hist.abortedAt = "train") =>
        /\ pc \in {"classify", "write", "idle"}
        /\ ltrackPositions = EmptyPositions(Tracks)
        /\ ~hist.published
        /\ ~hist.wrote
        /\ network = entry.network
        /\ pc = "classify" => i = 0 /\ loadCancelled

\* C18's case: a load() whose training stopped on the flag after a first
\* iteration has returned.
C18_Witness ==
    /\ path = "train"
    /\ hist.abortedAt = "train"
    /\ ~hist.cancelBeforeTrain
    /\ pc = "idle"

\* C19: no step of the engine, a later load() included, clears the cancel
\* flag once it is set, and a second requestCancelLoad() gives the flag the
\* value the first one gave it.
C19_CancelFlagOneWay ==
    [][ /\ loadCancelled => loadCancelled'
        /\ SetCancelled(SetCancelled(loadCancelled)) = SetCancelled(loadCancelled) ]_vars

\* C19's case: a load() entered after requestCancelLoad() has returned, the
\* flag still set.
C19_Witness ==
    /\ loadCancelled
    /\ loads >= 2
    /\ hist.cancelBeforeTrain
    /\ hist.flagAtReturn
    /\ pc = "idle"

\* C20: train() reads the cancel flag at the start of every iteration; a
\* step taken in the training loop with the flag set applies no update, so
\* the reference vectors stay those of the last completed iteration, and
\* the training then stands as aborted with no later iteration run.
C20_TrainStopsAtIterationStart ==
    [][ /\ (pc = "train" /\ loadCancelled) =>
              /\ lnetwork' = lnetwork
              /\ pc' \in {"train", "classify"}
              /\ pc' = "classify" => hist'.abortedAt = "train" /\ i' = 0
        /\ (hist.abortedAt = "train" /\ pc = "classify") =>
              /\ lnetwork' \in {lnetwork, NoNetwork}
              /\ pc' # "train" ]_vars

\* C20's case: the flag was clear at iteration 0 and set at the start of a
\* later iteration, and the training has stopped there.
C20_Witness ==
    /\ pc = "classify"
    /\ hist.abortedAt = "train"
    /\ ~hist.cancelBeforeTrain
    /\ lnetwork # NoNetwork

\* The Progress values of the first n iterations.
ProgressOfIterations(n) ==
    [k \in 1 .. n |-> [currentIteration |-> k - 1, totalIterations |-> IterationCount]]

\* C21: the caller's callback has been invoked once for each iteration run
\* so far, with the iterations' numbers from 0 upward and the configured
\* iteration count; a training that was not cancelled has invoked it
\* IterationCount times; a caller without a callback sees no invocation.
C21_ProgressOncePerIteration ==
    /\ ~progressCallback => progress = << >>
    /\ progressCallback =>
          /\ progress = ProgressOfIterations(Len(progress))
          /\ Len(progress) <= IterationCount
          /\ pc = "train" => Len(progress) = i
          /\ (path = "train" /\ pc \in {"classify", "index"} /\ hist.abortedAt # "train")
                => Len(progress) = IterationCount

\* C21's case: a training run called with a callback has run all its
\* iterations and is building the index.
C21_Witness ==
    /\ progressCallback
    /\ path = "train"
    /\ pc = "index"
    /\ Len(progress) = IterationCount

\* The life-cycle state of the network load() is working on, by the calls
\* made on it so far: constructed at line 208, inside train() of line 220,
\* left by train() at its last iteration or on the cancel predicate; a
\* network read from the cache is a trained one.
NetworkState ==
    CASE lnetwork = NoNetwork -> "None"
      [] path = "cache" -> "Trained"
      [] pc = "train" /\ i = 0 -> "Uninitialized"
      [] pc = "train" -> "Training"
      [] hist.abortedAt = "train" -> "Aborted"
      [] OTHER -> "Trained"

\* The states a network is in after zero or more moves of its life cycle;
\* None stands for the object before its construction and after its end.
LaterStates(st) ==
    CASE st = "None" -> {"None", "Uninitialized", "Trained"}
      [] st = "Uninitialized" -> {"Uninitialized", "Training", "Trained", "Aborted"}
      [] st = "Training" -> {"Training", "Trained", "Aborted"}
      [] st = "Trained" -> {"Trained", "None"}
      [] OTHER -> {"Aborted", "None"}

\* C22: the network of a load() only moves forward along Uninitialized,
\* Training, then Trained or Aborted; in one of the last two its reference
\* vectors no longer change until the object ends; a position is asked of
\* it (a track gets a position) only when it is Trained; and the engine's
\* network changes only by a Trained network taking its place.
C22_NetworkLifeCycle ==
    [][ /\ NetworkState' \in LaterStates(NetworkState)
        /\ (NetworkState \in {"Trained", "Aborted"} /\ lnetwork' # NoNetwork)
              => lnetwork' = lnetwork
        /\ (pc = "classify" /\ pc' = "classify" /\ ltrackPositions' # ltrackPositions)
              => NetworkState = "Trained" /\ lnetwork' = lnetwork
        /\ network' # network => NetworkState = "Trained" /\ network' = lnetwork ]_vars

\* C22's case: a network trained to its last iteration has given every
\* sample its position.
C22_Witness ==
    /\ path = "train"
    /\ pc = "classify"
    /\ NetworkState = "Trained"
    /\ i = Len(samples)
    /\ \E t \in Tracks : ltrackPositions[t] # << >>

\* The tracks that carry an artist with a link type.
TracksCarrying(a, lt) ==
    { t \in Tracks : \E k \in DOMAIN TrackArtistLinks(t) :
                        TrackArtistLinks(t)[k] = [artist |-> a, type |-> lt] }

\* The positions the engine holds for those tracks.
LinkPositions(a, lt) == UNION { Range(trackPositions[t]) : t \in TracksCarrying(a, lt) }

\* C23: every artist that getSimilarArtists returns was found, for one of
\* the link types asked, in that type's matrix at a position of a track
\* carrying the query artist with that very link type.
C23_ArtistCandidatesPerLinkType ==
    lastQuery.op = "getSimilarArtists" =>
        \A b \in Range(lastQuery.res) :
            \E lt \in lastQuery.linkTypes \cap DOMAIN artistMatrix :
                \E p \in LinkPositions(lastQuery.ids[1], lt) :
                    b \in Range(Cell(artistMatrix[lt], p))

\* Lines 318-329: the candidates of one link type, none when the type has
\* no matrix.
CandidatesForLinkType(a, lt, maxCount) ==
    IF lt \in DOMAIN artistMatrix
    THEN Range(getSimilarObjects(<< a >>, artistMatrix[lt], artistPositions, maxCount))
    ELSE {}

\* The existing artists among the candidates of the link types of the last
\* query.
ExistingCandidates ==
    artistsDb \cap UNION { CandidatesForLinkType(lastQuery.ids[1], lt, lastQuery.maxCount) :
                              lt \in lastQuery.linkTypes }

\* C24: getSimilarArtists returns existing candidates of its link types,
\* each once: all of them when they are at most maxCount, and maxCount of
\* them when they are more.
C24_ArtistUnionTrimmed ==
    lastQuery.op = "getSimilarArtists" =>
        /\ Range(lastQuery.res) \subseteq ExistingCandidates
        /\ NoDuplicate(lastQuery.res)
        /\ Cardinality(ExistingCandidates) <= lastQuery.maxCount
              => Range(lastQuery.res) = ExistingCandidates
        /\ Cardinality(ExistingCandidates) > lastQuery.maxCount
              => Len(lastQuery.res) = lastQuery.maxCount

\* C24's case: a query over a link type without a matrix and two link types
\* that both give a candidate, more in all than maxCount, has returned
\* maxCount of them.
C24_Witness ==
    /\ lastQuery.op = "getSimilarArtists"
    /\ lastQuery.linkTypes = LinkTypes
    /\ "Producer" \notin DOMAIN artistMatrix
    /\ CandidatesForLinkType(lastQuery.ids[1], "Artist", lastQuery.maxCount) \cap artistsDb # {}
    /\ CandidatesForLinkType(lastQuery.ids[1], "Composer", lastQuery.maxCount) \cap artistsDb # {}
    /\ Cardinality(ExistingCandidates) > lastQuery.maxCount
    /\ Len(lastQuery.res) = lastQuery.maxCount

\* C25: the network constructed for n samples at spn[1] / spn[2] samples
\* per neuron is a square of side max(2, floor(sqrt(n / (spn[1] / spn[2])))):
\* the side is 2 when n / spn is below 4, and else the one integer s with
\* s * s <= n / spn < (s + 1) * (s + 1); 400 samples at 4 give 10, and 1 or 8
\* samples at 4 give 2.
C25_GridSizing ==
    (pc = "train" /\ lnetwork # NoNetwork) =>
        LET n == Len(samples)
            num == sampleCountPerNeuron[1]
            den == sampleCountPerNeuron[2]
            s == lnetwork.width
        IN  /\ lnetwork.height = s
            /\ DOMAIN lnetwork.refVectors = Grid(s, s)
            /\ IF n * den < 4 * num
               THEN s = 2
               ELSE s * s * num <= n * den /\ n * den < (s + 1) * (s + 1) * num
            /\ (n = 400 /\ sampleCountPerNeuron = << 4, 1 >>) => s = 10
            /\ (n \in {1, 8} /\ sampleCountPerNeuron = << 4, 1 >>) => s = 2

\* C25's case: a network has been sized for 400 samples at the default 4
\* samples per neuron.
C25_Witness ==
    /\ pc = "train"
    /\ Len(samples) = 400
    /\ sampleCountPerNeuron = DefaultSampleCountPerNeuron
    /\ lnetwork.width = 10

\* C26: in a training the dimensions of the network, the length of its
\* reference vectors, the length of the data weights and the length of the
\* track's sample vector are the sum of nbDimensions over the features of
\* the train settings.
C26_DimensionsAgree ==
    (call.fn = "loadFromTraining" /\ call.returned) =>
        LET n == SumNbDimensions(call.featureSettingsMap)
        IN  /\ call.nbDimensions = n
            /\ call.network.dimensions = n
            /\ Len(call.network.refVector) = n
            /\ Len(call.network.dataWeights) = n
            /\ \A k \in 1 .. n : call.network.dataWeights[k] # "unset"
            /\ call.sample.hasValue => Len(call.sample.vector) = n

\* C26's case: a training over several features, one of them of more than
\* one dimension, has built a sample from a track's value map.
C26_Witness ==
    /\ call.fn = "loadFromTraining"
    /\ call.returned
    /\ Cardinality(call.featureSettingsMap) > 1
    /\ \E f \in call.featureSettingsMap : FeatureNbDimensions(f) > 1
    /\ call.sample.hasValue
    /\ Len(call.sample.vector) > 1

\* C27: when a training load() has installed its network and returned, the
\* cache holds that network.  (The claim asks for the track positions as
\* well; the network alone is compared here.)
C27_PublishedModelIsCached ==
    (path = "train" /\ pc = "idle" /\ hist.published)
        => cache.network = loaded.network /\ cache.network = network

\* The entries of track list 1, in creation order.
ListEntries == SelectSeq(call.table, LAMBDA row : row.tracklist_id = 1)

\* C29: getEntries with a range returns the list's entries from index
\* offset on, in creation order, at most size of them; without a range it
\* returns them all.
C29_GetEntriesRange ==
    (call.fn = "getEntries" /\ call.returned) =>
        IF call.range.hasValue
        THEN /\ Len(call.result) <= call.range.size
             /\ \A k \in DOMAIN call.result :
                   call.result[k] = ListEntries[call.range.offset + k]
        ELSE call.result = ListEntries

\* p is the best matching unit of net for sample: no neuron is nearer, and
\* none as near comes before it in row-major order.
IsBestMatchingUnit(net, p, sample) ==
    /\ p \in Grid(net.width, net.height)
    /\ \A q \in Grid(net.width, net.height) :
          /\ Distance(net, p, sample) <= Distance(net, q, sample)
          /\ Distance(net, q, sample) = Distance(net, p, sample) =>
                Rank(p, net.width) <= Rank(q, net.width)

Last(seq) == seq[Len(seq)]

\* C30: the position the classification loop records for a sample is a
\* neuron of minimal distance to it, the first in row-major order among the
\* nearest; a training iteration moves onto its sample the neuron the same
\* rule picks.
C30_BestMatchingUnit ==
    [][ /\ (pc = "classify" /\ pc' = "classify" /\ ltrackPositions' # ltrackPositions) =>
              /\ Len(ltrackPositions'[samplesTrackIds[i + 1]]) =
                    Len(ltrackPositions[samplesTrackIds[i + 1]]) + 1
              /\ IsBestMatchingUnit(lnetwork,
                                    Last(ltrackPositions'[samplesTrackIds[i + 1]]),
                                    samples[i + 1])
        /\ (pc = "train" /\ progress' # progress) =>
              \E p \in Grid(lnetwork.width, lnetwork.height) :
                 /\ IsBestMatchingUnit(lnetwork, p, samples[(i % Len(samples)) + 1])
                 /\ lnetwork'.refVectors[p] = samples[(i % Len(samples)) + 1]
                 /\ \A q \in Grid(lnetwork.width, lnetwork.height) :
                       (q # p /\ ~Adjacent(q, p)) =>
                          lnetwork'.refVectors[q] = lnetwork.refVectors[q]
      ]_vars

\* A sample was classified on a tie: two neurons at least are nearest to it,
\* and the recorded one is not the last of them.
C30_Witness ==
    /\ pc = "classify"
    /\ i > 0
    /\ \E q \in Grid(lnetwork.width, lnetwork.height) :
          LET p == Last(ltrackPositions[samplesTrackIds[i]])
          IN  /\ q # p
              /\ Distance(lnetwork, q, samples[i]) = Distance(lnetwork, p, samples[i])
              /\ IsBestMatchingUnit(lnetwork, p, samples[i])

\* The steps of load() that build a model: the training, the classification
\* and the construction of the index.
BuildingSteps == {"train", "classify", "index"}

\* C28: of two load() calls on one engine, at most one is at a training or
\* index-construction step at any time.
C28_SingleActiveTrainer == ~(pc \in BuildingSteps /\ other.pc \in BuildingSteps)

NoRepeat(seq) == \A j, k \in DOMAIN seq : seq[j] = seq[k] => j = k

MatrixHasNoRepeat(m) == \A p \in DOMAIN m.cells : NoRepeat(m.cells[p])

\* C31: no position collection of an entity holds a position twice and no
\* matrix cell holds an entity twice, whatever the loaded track positions
\* repeat or share.
C31_IndexInsertionIdempotent ==
    /\ \A t \in Tracks : NoRepeat(trackPositions[t])
    /\ \A r \in Releases : NoRepeat(releasePositions[r])
    /\ \A a \in Artists : NoRepeat(artistPositions[a])
    /\ MatrixHasNoRepeat(trackMatrix)
    /\ MatrixHasNoRepeat(releaseMatrix)
    /\ \A lt \in DOMAIN artistMatrix : MatrixHasNoRepeat(artistMatrix[lt])

\* A load of positions that repeat one for track 1 has completed, and the
\* repeated position is in the index, shared by another track's artist.
C31_Witness ==
    /\ pc = "idle"
    /\ hist.published
    /\ ~NoRepeat(loaded.trackPositions[1])
    /\ <<1, 1>> \in Range(trackPositions[1])
    /\ Len(Cell(trackMatrix, <<1, 1>>)) > 1
    /\ \E a \in Artists : Len(artistPositions[a]) > 1

GridPositions == Grid(network.width, network.height)

\* C32: after a completed load() every matrix is the exact inverse of its
\* position map: a position is among an entity's positions exactly when the
\* entity is in that cell of the matrix (for an artist: of the matrix of
\* some link type).
C32_MatrixInverseOfPositions ==
    (pc = "idle" /\ hist.published) =>
        \A p \in GridPositions :
            /\ \A t \in Tracks :
                  p \in Range(trackPositions[t]) <=> t \in Range(Cell(trackMatrix, p))
            /\ \A r \in Releases :
                  p \in Range(releasePositions[r]) <=> r \in Range(Cell(releaseMatrix, p))
            /\ \A a \in Artists :
                  p \in Range(artistPositions[a]) <=>
                     \E lt \in DOMAIN artistMatrix : a \in Range(Cell(artistMatrix[lt], p))

\* C33: once the cancel flag is set, a step of load() fetches no further
\* track, classifies no further sample and executes no later phase: no
\* normalization and network construction, no training iteration, no
\* publication of a network and no cache write.
C33_CancelStopsEveryPhase ==
    [][ (loadCancelled /\ pc \in {"fetch", "train", "classify", "index", "write"}) =>
            /\ Len(samples') <= Len(samples)
            /\ \A t \in Tracks : Len(ltrackPositions'[t]) <= Len(ltrackPositions[t])
            /\ ~(pc = "fetch" /\ pc' = "train")
            /\ (pc = "train" => lnetwork' = lnetwork)
            /\ network' = network
            /\ cache' = cache
      ]_vars

\* The places of a statement among those executed.
Places(done, stmt, k) == { j \in DOMAIN done : done[j] = [stmt |-> stmt, k |-> k] }

\* C35: in a training the normalization factors are computed once, from
\* the whole raw sample set and before any sample is normalized; every
\* sample is normalized once, with those factors; the data weights are set
\* before train is called.
C35_NormalizationOrdering ==
    call.fn = "normalize" =>
        /\ Cardinality(Places(call.done, "factors", 0)) <= 1
        /\ \A k \in DOMAIN call.raw :
              /\ Cardinality(Places(call.done, "normalize", k)) <= 1
              /\ \A j \in Places(call.done, "normalize", k) :
                    /\ \E f \in Places(call.done, "factors", 0) : f < j
                    /\ call.factors = computeNormalizationFactors(call.raw)
                    /\ call.samples[k] = normalizeData(computeNormalizationFactors(call.raw),
                                                       call.raw[k])
              /\ Places(call.done, "normalize", k) = {} => call.samples[k] = call.raw[k]
        /\ \A j \in Places(call.done, "train", 0) :
              /\ \E w \in Places(call.done, "weights", 0) : w < j
              /\ \A k \in DOMAIN call.raw : Places(call.done, "normalize", k) # {}
              /\ \A d \in DOMAIN call.dataWeights : call.dataWeights[d] # "unset"
              /\ Len(call.dataWeights) = nbDimensions(FeatureNames)

\* train has been called on three samples whose first is not the least:
\* normalizing the first moved the least and greatest values of the array.
C35_Witness ==
    /\ call.fn = "normalize"
    /\ call.at = "training"
    /\ Len(call.raw) = 3
    /\ call.raw[1] > call.raw[2]
    /\ call.raw[3] > call.raw[2]
    /\ call.samples # call.raw

\* C34: a training is left before its last iteration only with the cancel
\* flag set, and every load() that is running eventually returns.
C34_LoadTerminates ==
    /\ [][ (pc = "train" /\ pc' # "train") =>
              \/ loadCancelled
              \/ i = IterationCount - 1 /\ lnetwork' # NoNetwork ]_vars
    /\ (pc # "idle") ~> (pc = "idle")

\* Every result the query q can return on the engine as it is.
ResultsOf(q) ==
    CASE q.op = "getSimilarArtists" -> getSimilarArtists(q.ids[1], q.linkTypes, q.maxCount)
      [] q.op = "getSimilarReleases" -> { getSimilarReleases(q.ids[1], q.maxCount) }
      [] OTHER -> { getSimilarTracks(q.ids, q.maxCount) }

\* C36: a similarity query, its return and toCache() leave the network,
\* the median, the six index structures, the cancel flag and the cache as
\* they were; what a query has returned is what the same query, run after
\* it, can return.
C36_QueriesReadOnly ==
    [][ (lastQuery' # lastQuery \/ call' # call) =>
            /\ EngineModel' = EngineModel
            /\ loadCancelled' = loadCancelled
            /\ cache' = cache
            /\ toCache' = toCache
            /\ lastQuery # NoQuery => lastQuery.res \in ResultsOf(lastQuery) ]_vars

\* A query has handed back entities and toCache() has returned the model.
C36_Witness ==
    /\ lastQuery.op = "getSimilarArtists"
    /\ lastQuery.res # << >>
    /\ call.fn = "toCache"
    /\ call.result.network = network

\* p is a cell of matrix m.
InMatrix(p, m) == p[1] \in 0 .. m.width - 1 /\ p[2] \in 0 .. m.height - 1

HasSizeOfNetwork(m) == m.width = network.width /\ m.height = network.height

\* C37: on an engine at rest after a completed load(), every matrix has the
\* width and height of the loaded network, and every position of a track, a
\* release or an artist is a cell of the matrix it indexes (for an artist,
\* of every link type's matrix).
C37_PositionsInsideGrid ==
    (pc = "idle" /\ hist.published) =>
        /\ HasSizeOfNetwork(trackMatrix)
        /\ HasSizeOfNetwork(releaseMatrix)
        /\ \A lt \in DOMAIN artistMatrix : HasSizeOfNetwork(artistMatrix[lt])
        /\ \A t \in Tracks : \A p \in Range(trackPositions[t]) : InMatrix(p, trackMatrix)
        /\ \A r \in Releases : \A p \in Range(releasePositions[r]) : InMatrix(p, releaseMatrix)
        /\ \A a \in Artists : \A p \in Range(artistPositions[a]) :
              \A lt \in DOMAIN artistMatrix : InMatrix(p, artistMatrix[lt])

\* The raw samples of the tracks of ids, in their order.
RawSamples(ids) == [k \in DOMAIN ids |-> FeatureValue(ids[k])]

\* C38: the sample list and the list of their track ids have one length
\* throughout; the track positions a training hands to the index hold, for
\* each sampled track, the one position that is the best matching unit of
\* its own normalized sample, and nothing for any other track.
C38_OnePositionPerSampledTrack ==
    /\ Len(samples) = Len(samplesTrackIds)
    /\ (path = "train" /\ pc = "index") =>
          /\ StrictlyAscending(samplesTrackIds)
          /\ \A k \in DOMAIN samples :
                samples[k] = normalizeData(computeNormalizationFactors(RawSamples(samplesTrackIds)),
                                           FeatureValue(samplesTrackIds[k]))
          /\ \A t \in Tracks :
                IF t \in Range(samplesTrackIds)
                THEN /\ Len(loaded.trackPositions[t]) = 1
                     /\ \A k \in DOMAIN samples :
                           samplesTrackIds[k] = t =>
                              IsBestMatchingUnit(lnetwork, loaded.trackPositions[t][1], samples[k])
                ELSE loaded.trackPositions[t] = << >>

\* A training that was not cancelled has handed the positions of three
\* sampled tracks to the index, two of them at different positions.
C38_Witness ==
    /\ path = "train"
    /\ pc = "index"
    /\ ~loadCancelled
    /\ Len(samplesTrackIds) = 3
    /\ samples[1] # samples[2]
    /\ loaded.trackPositions[samplesTrackIds[1]] # loaded.trackPositions[samplesTrackIds[2]]

\* C39: on an engine whose cancel flag was set before, a load() never
\* comes to train or to classify, installs no network but one read from the
\* cache, and changes the cache only by invalidating it at its entry, which
\* load(true) does.
C39_NoTrainingAfterCancel ==
    [][ /\ loadCancelled
        /\ pc' \notin {"train", "classify", "crashed"}
        /\ network' # network => path = "cache" /\ network' = CacheRead(cache).network
        /\ cache' # cache => pc = "idle" /\ path' = "train" /\ cache' = NoCache
        /\ (pc = "idle" /\ pc' # "idle" /\ path' = "train" /\ CacheRead(cache) # NoCache) =>
              cache' = NoCache
        /\ (pc = "write" /\ pc' = "idle") => ~hist'.wrote
      ]_vars

\* A second load after the cancellation has returned: it was load(true) on
\* an engine holding a model, the cache file is gone and the model is the
\* one held before.
C39_Witness ==
    /\ loadCancelled
    /\ loads = 2
    /\ pc = "idle"
    /\ path = "train"
    /\ hist.abortedAt = "fetch"
    /\ cache = NoCache
    /\ network # NoNetwork
    /\ EngineModel = entry

\* C40: what getSimilarTracksFromTrackList hands back for a track list is
\* what getSimilarTracks hands back for the list's track ids and the same
\* maxCount; for a list that does not exist that is its result for no id,
\* nothing, and the call returns.
C40_TrackListQueryIsTrackQuery ==
    lastQuery.op = "getSimilarTracksFromTrackList" =>
        /\ pc # "crashed"
        /\ lastQuery.ids \in { TrackListIds(l) : l \in TrackLists }
        /\ lastQuery.res = getSimilarTracks(lastQuery.ids, lastQuery.maxCount)
        /\ lastQuery.ids = << >> =>
              /\ lastQuery.res = << >>
              /\ lastQuery.res = getSimilarTracks(<< >>, lastQuery.maxCount)

\* A query on a list of two tracks has handed back tracks that a query on
\* its first track alone does not.
C40_Witness ==
    /\ lastQuery.op = "getSimilarTracksFromTrackList"
    /\ Len(lastQuery.ids) = 2
    /\ lastQuery.res # << >>
    /\ lastQuery.res # getSimilarTracks(<< lastQuery.ids[1] >>, lastQuery.maxCount)
    /\ lastQuery.res = getSimilarTracks(lastQuery.ids, lastQuery.maxCount)

====
